---- MODULE Spec2Model ----
(***************************************************************************)
(* The MSHD-2.0 disaster-ID codec (coordinate variant, src/code/backend):  *)
(* the dictionaries, the pydantic field records, the builders,             *)
(* encode_disaster and decode_disaster.                                    *)
(*                                                                         *)
(* A Python str is a sequence of one-character strings.  Two characters    *)
(* stand for non-ASCII code points: "u3" is U+0663 (ARABIC-INDIC DIGIT     *)
(* THREE: str.isdigit() is true and int() reads it as 3) and "s2" is       *)
(* U+00B2 (SUPERSCRIPT TWO: str.isdigit() is true and int() rejects it).   *)
(* A raised exception is a result record with ok = FALSE and the message   *)
(* in err.                                                                 *)
(***************************************************************************)
EXTENDS Integers, Sequences, FiniteSets, TLC

\* ------------------------------------------------------------------------
\* Python built-ins used by the codec
\* ------------------------------------------------------------------------

AsciiDigits == {"0", "1", "2", "3", "4", "5", "6", "7", "8", "9"}

\* Characters c with c.isdigit() that are not ASCII digits.
OtherDigits == {"u3", "s2"}

\* Characters that int() reads as a decimal digit (Unicode category Nd).
DecimalChars == AsciiDigits \cup {"u3"}

DigitValue(c) ==
    CASE c = "0" -> 0 [] c = "1" -> 1 [] c = "2" -> 2 [] c = "3" -> 3
      [] c = "4" -> 4 [] c = "5" -> 5 [] c = "6" -> 6 [] c = "7" -> 7
      [] c = "8" -> 8 [] c = "9" -> 9 [] c = "u3" -> 3 [] OTHER -> 0

DigitChar(d) ==
    CASE d = 0 -> "0" [] d = 1 -> "1" [] d = 2 -> "2" [] d = 3 -> "3"
      [] d = 4 -> "4" [] d = 5 -> "5" [] d = 6 -> "6" [] d = 7 -> "7"
      [] d = 8 -> "8" [] OTHER -> "9"

\* str.isdigit(): non-empty and every character a digit character.
str_isdigit(s) ==
    /\ Len(s) > 0
    /\ \A i \in 1..Len(s) : s[i] \in AsciiDigits \cup OtherDigits

\* s[a:b] with 0 <= a <= b, Python's clamping to len(s) included.
Slice(s, a, b) ==
    LET hi == IF b > Len(s) THEN Len(s) ELSE b
    IN  IF a >= hi THEN << >> ELSE SubSeq(s, a + 1, hi)

RECURSIVE DigitsValue(_)
DigitsValue(s) ==
    IF s = << >> THEN 0
    ELSE 10 * DigitsValue(SubSeq(s, 1, Len(s) - 1)) + DigitValue(s[Len(s)])

RECURSIVE LStrip(_)
LStrip(s) == IF s # << >> /\ s[1] = " " THEN LStrip(Tail(s)) ELSE s

RECURSIVE RStrip(_)
RStrip(s) ==
    IF s # << >> /\ s[Len(s)] = " " THEN RStrip(SubSeq(s, 1, Len(s) - 1)) ELSE s

\* int(s): surrounding whitespace is dropped, one leading sign is read, and
\* what is left must be one or more decimal characters.
PyInt(s) ==
    LET t    == RStrip(LStrip(s))
        neg  == t # << >> /\ t[1] = "-"
        sgn  == t # << >> /\ t[1] \in {"-", "+"}
        body == IF sgn THEN Tail(t) ELSE t
        good == body # << >> /\ \A i \in 1..Len(body) : body[i] \in DecimalChars
    IN  [ok  |-> good,
         val |-> IF good THEN (IF neg THEN 0 - DigitsValue(body) ELSE DigitsValue(body))
                 ELSE 0]

RECURSIVE NatStr(_)
NatStr(n) ==
    IF n < 10 THEN << DigitChar(n) >>
    ELSE NatStr(n \div 10) \o << DigitChar(n % 10) >>

\* str(n) of an int.
PyStr(n) == IF n < 0 THEN << "-" >> \o NatStr(0 - n) ELSE NatStr(n)

RECURSIVE ZeroPad(_, _)
ZeroPad(s, w) == IF Len(s) >= w THEN s ELSE ZeroPad(<< "0" >> \o s, w)

\* "{:0<length>d}".format(n): the sign counts towards the width.
FormatZeroD(n, length) ==
    IF n < 0 THEN << "-" >> \o ZeroPad(NatStr(0 - n), length - 1)
    ELSE ZeroPad(NatStr(n), length)

\* ------------------------------------------------------------------------
\* dictionaries.py.  A dict is a function from its keys (strs) to its values;
\* the display names are the English glosses of the source's Chinese names.
\* ------------------------------------------------------------------------

\* Python's None, as returned by dict.get for an absent key.
None == "<None>"

\* {}: the default of .get(key, {}).
EmptyDict == << >>

\* d.get(k) when dflt is None, d.get(k, {}) when dflt is EmptyDict.
DictGet(d, k, dflt) == IF k \in DOMAIN d THEN d[k] ELSE dflt

\* A slip: d.setdefault(k, dflt) in place of d.get(k, dflt) stores the default
\* under an absent key.
DictAfterSetDefault(d, k, dflt) == IF k \in DOMAIN d THEN d ELSE d @@ (k :> dflt)

\* The dict d after d.get(k, dflt): get stores nothing.
DictAfterGet(d, k, dflt) == d

\* The dict d after d.get(k1, {}).get(k2).
DictAfterGet2(d, k1, k2) ==
    LET d1 == DictAfterGet(d, k1, EmptyDict)
    IN  IF k1 \in DOMAIN d1 THEN [d1 EXCEPT ![k1] = DictAfterGet(@, k2, None)] ELSE d1

\* The dict d after d.get(k1, {}).get(k2, {}).get(k3).
DictAfterGet3(d, k1, k2, k3) ==
    LET d1 == DictAfterGet(d, k1, EmptyDict)
    IN  IF k1 \in DOMAIN d1
        THEN [d1 EXCEPT ![k1] =
                LET d2 == DictAfterGet(@, k2, EmptyDict)
                IN  IF k2 \in DOMAIN d2 THEN [d2 EXCEPT ![k2] = DictAfterGet(@, k3, None)]
                    ELSE d2]
        ELSE d1

SOURCE_DICT ==
    <<"1">> :> (<<"0", "0">> :> "forward earthquake emergency headquarters"
        @@ <<"0", "1">> :> "rear earthquake emergency headquarters"
        @@ <<"2", "0">> :> "emergency command technical system"
        @@ <<"2", "1">> :> "social service engineering emergency rescue system"
        @@ <<"4", "0">> :> "danger zone pre-assessment working group"
        @@ <<"4", "1">> :> "earthquake emergency command technical coordination group"
        @@ <<"4", "2">> :> "post-earthquake government information support project group"
        @@ <<"8", "0">> :> "disaster rapid report receiving and processing system"
        @@ <<"8", "1">> :> "local seismological bureau emergency information service system"
        @@ <<"9", "9">> :> "other")
    @@ <<"2">> :> (<<"0", "0">> :> "internet sensing"
        @@ <<"0", "1">> :> "communication network sensing"
        @@ <<"0", "2">> :> "public opinion network sensing"
        @@ <<"0", "3">> :> "power system sensing"
        @@ <<"0", "4">> :> "traffic system sensing"
        @@ <<"0", "5">> :> "other")
    @@ <<"3">> :> (<<"0", "0">> :> "other data")

CARRIER_DICT ==
    <<"0">> :> "text"
    @@ <<"1">> :> "image"
    @@ <<"2">> :> "audio"
    @@ <<"3">> :> "video"
    @@ <<"4">> :> "other"

DISASTER_CATEGORY_DICT ==
    <<"2">> :> (<<"0", "1">> :> "death"
        @@ <<"0", "2">> :> "injured"
        @@ <<"0", "3">> :> "missing")
    @@ <<"3">> :> (<<"0", "1">> :> "earth-wood"
        @@ <<"0", "2">> :> "brick-wood"
        @@ <<"0", "3">> :> "brick-concrete"
        @@ <<"0", "4">> :> "frame"
        @@ <<"0", "5">> :> "other")
    @@ <<"4">> :> (<<"0", "1">> :> "traffic"
        @@ <<"0", "2">> :> "water supply"
        @@ <<"0", "3">> :> "oil pipeline"
        @@ <<"0", "4">> :> "gas"
        @@ <<"0", "5">> :> "electric power"
        @@ <<"0", "6">> :> "communication"
        @@ <<"0", "7">> :> "water conservancy")
    @@ <<"5">> :> (<<"0", "1">> :> "collapse"
        @@ <<"0", "2">> :> "landslide"
        @@ <<"0", "3">> :> "debris flow"
        @@ <<"0", "4">> :> "karst collapse"
        @@ <<"0", "5">> :> "tsunami"
        @@ <<"0", "6">> :> "typhoon"
        @@ <<"0", "7">> :> "earthquake"
        @@ <<"0", "8">> :> "other")

HOUSE_DAMAGE_INDICATORS ==
    <<"0", "0", "1">> :> "generally damaged area"
    @@ <<"0", "0", "2">> :> "severely damaged area"
    @@ <<"0", "0", "3">> :> "degree of damage"

LIFELINE_INDICATORS ==
    <<"0", "0", "1">> :> "number of damaged facilities"
    @@ <<"0", "0", "2">> :> "extent of damage"
    @@ <<"0", "0", "3">> :> "degree of damage"

SECONDARY_INDICATORS ==
    <<"0", "0", "1">> :> "disaster loss"
    @@ <<"0", "0", "2">> :> "disaster extent"
    @@ <<"0", "0", "3">> :> "degree of damage"

DISASTER_INDICATOR_DICT ==
    <<"1">> :> (<<"0", "1">> :> (<<"0", "0", "1">> :> "geographic location"
            @@ <<"0", "0", "2">> :> "time"
            @@ <<"0", "0", "3">> :> "magnitude"
            @@ <<"0", "0", "4">> :> "focal depth"
            @@ <<"0", "0", "5">> :> "intensity"))
    @@ <<"2">> :> (<<"0", "1">> :> (<<"0", "0", "1">> :> "number of people affected"
            @@ <<"0", "0", "2">> :> "degree of damage")
        @@ <<"0", "2">> :> (<<"0", "0", "1">> :> "number of people affected"
            @@ <<"0", "0", "2">> :> "degree of damage")
        @@ <<"0", "3">> :> (<<"0", "0", "1">> :> "number of people affected"
            @@ <<"0", "0", "2">> :> "degree of damage"))
    @@ <<"3">> :> (<<"0", "1">> :> HOUSE_DAMAGE_INDICATORS
        @@ <<"0", "2">> :> HOUSE_DAMAGE_INDICATORS
        @@ <<"0", "3">> :> HOUSE_DAMAGE_INDICATORS
        @@ <<"0", "4">> :> HOUSE_DAMAGE_INDICATORS
        @@ <<"0", "5">> :> HOUSE_DAMAGE_INDICATORS)
    @@ <<"4">> :> (<<"0", "1">> :> LIFELINE_INDICATORS
        @@ <<"0", "2">> :> LIFELINE_INDICATORS
        @@ <<"0", "3">> :> LIFELINE_INDICATORS
        @@ <<"0", "4">> :> LIFELINE_INDICATORS
        @@ <<"0", "5">> :> LIFELINE_INDICATORS
        @@ <<"0", "6">> :> LIFELINE_INDICATORS
        @@ <<"0", "7">> :> LIFELINE_INDICATORS)
    @@ <<"5">> :> (<<"0", "1">> :> SECONDARY_INDICATORS
        @@ <<"0", "2">> :> SECONDARY_INDICATORS
        @@ <<"0", "3">> :> SECONDARY_INDICATORS
        @@ <<"0", "4">> :> SECONDARY_INDICATORS
        @@ <<"0", "5">> :> SECONDARY_INDICATORS
        @@ <<"0", "6">> :> SECONDARY_INDICATORS
        @@ <<"0", "7">> :> SECONDARY_INDICATORS)

\* A call's outcome: the returned value, or the message of the exception raised.
Ok(v) == [ok |-> TRUE, err |-> "", val |-> v]

Raise(msg, dflt) == [ok |-> FALSE, err |-> msg, val |-> dflt]

\* The four module-level tables.  A Python dict is mutable and list_domain
\* hands out the very objects, so the tables are state, and every function
\* below reads them where they stand.
VARIABLE tables

InitialTables ==
    [source    |-> SOURCE_DICT,
     carrier   |-> CARRIER_DICT,
     disaster  |-> DISASTER_CATEGORY_DICT,
     indicator |-> DISASTER_INDICATOR_DICT]

get_source_name(code) ==
    IF Len(code) # 3 \/ ~str_isdigit(code)
    THEN Raise("source code must be 3 digits", None)
    ELSE LET cat == Slice(code, 0, 1)
             sub == Slice(code, 1, Len(code))
         IN  Ok(DictGet(DictGet(tables.source, cat, EmptyDict), sub, None))

get_carrier_name(code) == DictGet(tables.carrier, code, None)

\* A slip of one name: the indicator's name under "sub_category".
get_disaster_names_sub_indicator(category, sub_category, indicator) ==
    LET cat_name == DictGet(DictGet(tables.disaster, category, EmptyDict),
                            sub_category, None)
        indicator_name ==
            DictGet(DictGet(DictGet(tables.indicator, category, EmptyDict),
                            sub_category, EmptyDict),
                    indicator, None)
    IN  [category |-> cat_name, sub_category |-> indicator_name, indicator |-> indicator_name]

get_disaster_names(category, sub_category, indicator) ==
    LET cat_name == DictGet(DictGet(tables.disaster, category, EmptyDict),
                            sub_category, None)
        indicator_name ==
            DictGet(DictGet(DictGet(tables.indicator, category, EmptyDict),
                            sub_category, EmptyDict),
                    indicator, None)
    IN  [category |-> cat_name, sub_category |-> cat_name, indicator |-> indicator_name]

\* A slip: the None of an absent code is not looked at.
validate_source_lenient(code) ==
    LET r == get_source_name(code)
    IN  IF ~r.ok THEN Raise(r.err, None) ELSE Ok(None)

validate_source(code) ==
    LET r == get_source_name(code)
    IN  IF ~r.ok THEN Raise(r.err, None)
        ELSE IF r.val = None THEN Raise("unknown source code", None)
        ELSE Ok(None)

validate_carrier(code) ==
    IF get_carrier_name(code) = None THEN Raise("unknown carrier code", None)
    ELSE Ok(None)

\* A slip: the names are fetched and the test on them is left out.
validate_disaster_unchecked(category, sub_category, indicator) == Ok(None)

\* A slip: only the indicator name is required.
validate_disaster_indicator_only(category, sub_category, indicator) ==
    LET names == get_disaster_names(category, sub_category, indicator)
    IN  IF names.indicator = None
        THEN Raise("unknown disaster code combination", None)
        ELSE Ok(None)

\* A slip: only the category name is required.
validate_disaster_category_only(category, sub_category, indicator) ==
    LET names == get_disaster_names(category, sub_category, indicator)
    IN  IF names.category = None
        THEN Raise("unknown disaster code combination", None)
        ELSE Ok(None)

validate_disaster(category, sub_category, indicator) ==
    LET names == get_disaster_names(category, sub_category, indicator)
    IN  IF names.category = None \/ names.indicator = None
        THEN Raise("unknown disaster code combination", None)
        ELSE Ok(None)

\* list_domain(domain): the table itself, not a copy.
list_domain(domain) ==
    IF domain = "source" THEN Ok(tables.source)
    ELSE IF domain = "carrier" THEN Ok(tables.carrier)
    ELSE IF domain = "disaster" THEN Ok(tables.disaster)
    ELSE IF domain = "indicator" THEN Ok(tables.indicator)
    ELSE Raise("unknown domain", EmptyDict)

\* The tables t after get_source_name(code), and so after validate_source(code).
TablesAfterSource(t, code) ==
    IF Len(code) # 3 \/ ~str_isdigit(code) THEN t
    ELSE [t EXCEPT !.source = DictAfterGet2(@, Slice(code, 0, 1), Slice(code, 1, Len(code)))]

\* The tables t after get_carrier_name(code), and so after validate_carrier(code).
TablesAfterCarrier(t, code) == [t EXCEPT !.carrier = DictAfterGet(@, code, None)]

\* The tables t after get_disaster_names(...), and so after validate_disaster(...).
TablesAfterDisaster(t, category, sub_category, indicator) ==
    [t EXCEPT !.disaster  = DictAfterGet2(@, category, sub_category),
              !.indicator = DictAfterGet3(@, category, sub_category, indicator)]

\* ------------------------------------------------------------------------
\* models.py: the pydantic records.  Constructing one validates it; a
\* ValidationError (a ValueError) is a Raise.
\* ------------------------------------------------------------------------

NoEvent == [lat_code |-> << >>, lng_code |-> << >>, time_code |-> << >>]

NoCode == [code |-> << >>]

NoDisaster == [category |-> << >>, sub_category |-> << >>, indicator |-> << >>]

\* Field(..., min_length=lo, max_length=hi) on a str.
LengthOk(v, lo, hi) == lo <= Len(v) /\ Len(v) <= hi

\* A slip: the upper end of the range is not tested.
CoordValidLowerOnly(v, min_val, max_val) ==
    LET n == PyInt(v)
    IN  n.ok /\ ~(n.val < min_val)

\* validate_lat / validate_lng: int(v) must succeed and lie in [min_val, max_val].
CoordValid(v, min_val, max_val) ==
    LET n == PyInt(v)
    IN  n.ok /\ ~(n.val < min_val \/ n.val > max_val)

EventInfo(lat_code, lng_code, time_code) ==
    IF ~LengthOk(lat_code, 2, 8)
    THEN Raise("lat_code: length must be 2..8", NoEvent)
    ELSE IF ~PyInt(lat_code).ok
    THEN Raise("lat_code: invalid literal for int()", NoEvent)
    ELSE IF ~CoordValid(lat_code, -90000, 90000)
    THEN Raise("lat_code out of range [-90000,90000]", NoEvent)
    ELSE IF ~LengthOk(lng_code, 2, 8)
    THEN Raise("lng_code: length must be 2..8", NoEvent)
    ELSE IF ~PyInt(lng_code).ok
    THEN Raise("lng_code: invalid literal for int()", NoEvent)
    ELSE IF ~CoordValid(lng_code, -180000, 180000)
    THEN Raise("lng_code out of range [-180000,180000]", NoEvent)
    ELSE IF ~LengthOk(time_code, 14, 14)
    THEN Raise("time_code: length must be 14", NoEvent)
    ELSE IF ~str_isdigit(time_code)
    THEN Raise("time_code must be 14 digits in yyyyMMddHHmmss format", NoEvent)
    ELSE Ok([lat_code |-> lat_code, lng_code |-> lng_code, time_code |-> time_code])

SourceInfo(code) ==
    IF ~LengthOk(code, 3, 3) THEN Raise("code: length must be 3", NoCode)
    ELSE Ok([code |-> code])

CarrierInfo(code) ==
    IF ~LengthOk(code, 1, 1) THEN Raise("code: length must be 1", NoCode)
    ELSE Ok([code |-> code])

DisasterInfo(category, sub_category, indicator) ==
    IF ~LengthOk(category, 1, 1)
    THEN Raise("category: length must be 1", NoDisaster)
    ELSE IF ~LengthOk(sub_category, 2, 2)
    THEN Raise("sub_category: length must be 2", NoDisaster)
    ELSE IF ~LengthOk(indicator, 3, 3)
    THEN Raise("indicator: length must be 3", NoDisaster)
    ELSE Ok([category |-> category, sub_category |-> sub_category,
             indicator |-> indicator])

\* ------------------------------------------------------------------------
\* datetime, as _format_time_code uses it.  A datetime is its six calendar
\* fields; the UTC offset is parsed and then ignored by strftime.
\* ------------------------------------------------------------------------

IsLeap(y) == (y % 4 = 0 /\ y % 100 # 0) \/ y % 400 = 0

DaysInMonth(y, m) ==
    IF m = 2 THEN (IF IsLeap(y) THEN 29 ELSE 28)
    ELSE IF m \in {4, 6, 9, 11} THEN 30 ELSE 31

\* The datetime(...) constructor's range checks.
DateTimeValid(dt) ==
    /\ 1 <= dt.year /\ dt.year <= 9999
    /\ 1 <= dt.month /\ dt.month <= 12
    /\ 1 <= dt.day /\ dt.day <= DaysInMonth(dt.year, dt.month)
    /\ dt.hour <= 23 /\ dt.minute <= 59 /\ dt.second <= 59

NoDateTime == [year |-> 0, month |-> 0, day |-> 0, hour |-> 0, minute |-> 0, second |-> 0]

AllAscii(s) == \A i \in 1..Len(s) : s[i] \in AsciiDigits

\* datetime.strptime(s, "%Y%m%d%H%M%S") on a 14-character s: the pattern's
\* \d matches every decimal digit (U+0663 included, U+00B2 not), int() reads
\* it, and six fields over 14 digits leave each its full width.
strptime(s) ==
    LET dt == [year   |-> DigitsValue(Slice(s, 0, 4)),
               month  |-> DigitsValue(Slice(s, 4, 6)),
               day    |-> DigitsValue(Slice(s, 6, 8)),
               hour   |-> DigitsValue(Slice(s, 8, 10)),
               minute |-> DigitsValue(Slice(s, 10, 12)),
               second |-> DigitsValue(Slice(s, 12, 14))]
    IN  IF Len(s) # 14 \/ (\E i \in 1..Len(s) : s[i] \notin DecimalChars)
        THEN Raise("time data does not match format", NoDateTime)
        ELSE IF ~DateTimeValid(dt) THEN Raise("value out of range", NoDateTime)
        ELSE Ok(dt)

\* time_str.replace("Z", "+00:00"): every Z is replaced.
RECURSIVE ReplaceZ(_)
ReplaceZ(s) ==
    IF s = << >> THEN << >>
    ELSE (IF s[1] = "Z" THEN << "+", "0", "0", ":", "0", "0" >> ELSE << s[1] >>)
         \o ReplaceZ(Tail(s))

\* The shapes datetime.fromisoformat is modelled on: YYYY-MM-DD, then
\* optionally one separator character and HH:MM:SS, then optionally a UTC
\* offset +HH:MM or -HH:MM.  Every other string is treated as unparseable;
\* the time inputs of the specifications below are strings on which this
\* agrees with the library.
IsoDateShape(s) ==
    /\ Len(s) >= 10
    /\ AllAscii(Slice(s, 0, 4)) /\ s[5] = "-"
    /\ AllAscii(Slice(s, 5, 7)) /\ s[8] = "-"
    /\ AllAscii(Slice(s, 8, 10))

IsoTimeShape(s) ==
    /\ Len(s) >= 19
    /\ AllAscii(Slice(s, 11, 13)) /\ s[14] = ":"
    /\ AllAscii(Slice(s, 14, 16)) /\ s[17] = ":"
    /\ AllAscii(Slice(s, 17, 19))

IsoOffsetShape(s) ==
    /\ Len(s) = 25
    /\ s[20] \in {"+", "-"}
    /\ AllAscii(Slice(s, 20, 22)) /\ s[23] = ":"
    /\ AllAscii(Slice(s, 23, 25))
    /\ DigitsValue(Slice(s, 20, 22)) <= 23
    /\ DigitsValue(Slice(s, 23, 25)) <= 59

fromisoformat(s) ==
    LET shaped == \/ Len(s) = 10 /\ IsoDateShape(s)
                  \/ Len(s) = 19 /\ IsoDateShape(s) /\ IsoTimeShape(s)
                  \/ Len(s) = 25 /\ IsoDateShape(s) /\ IsoTimeShape(s) /\ IsoOffsetShape(s)
        timed  == Len(s) >= 19
        dt == [year   |-> DigitsValue(Slice(s, 0, 4)),
               month  |-> DigitsValue(Slice(s, 5, 7)),
               day    |-> DigitsValue(Slice(s, 8, 10)),
               hour   |-> IF timed THEN DigitsValue(Slice(s, 11, 13)) ELSE 0,
               minute |-> IF timed THEN DigitsValue(Slice(s, 14, 16)) ELSE 0,
               second |-> IF timed THEN DigitsValue(Slice(s, 17, 19)) ELSE 0]
    IN  IF ~shaped THEN Raise("Invalid isoformat string", NoDateTime)
        ELSE IF ~DateTimeValid(dt) THEN Raise("value out of range", NoDateTime)
        ELSE Ok(dt)

\* dt.strftime("%Y%m%d%H%M%S").  %Y is the C library's: glibc prints a year
\* below 1000 without leading zeros, other libraries pad it to four digits;
\* pad_year says which library the build has.
strftime(dt, pad_year) ==
    (IF pad_year THEN ZeroPad(NatStr(dt.year), 4) ELSE NatStr(dt.year))
    \o ZeroPad(NatStr(dt.month), 2) \o ZeroPad(NatStr(dt.day), 2)
    \o ZeroPad(NatStr(dt.hour), 2) \o ZeroPad(NatStr(dt.minute), 2)
    \o ZeroPad(NatStr(dt.second), 2)

\* ------------------------------------------------------------------------
\* codec.py
\* ------------------------------------------------------------------------

ID_TOTAL_LENGTH == 36
EVENT_CODE_LEN == 26
SOURCE_CODE_LEN == 3
CARRIER_CODE_LEN == 1
DISASTER_CODE_LEN == 6

\* A slip: the latitude's offset for every field.
_format_coord_one_offset(code, length, field, min_val, max_val) ==
    LET n == PyInt(code)
    IN  IF ~n.ok THEN Raise("must be integer", << >>)
        ELSE IF n.val < min_val \/ n.val > max_val THEN Raise("out of range", << >>)
        ELSE Ok(FormatZeroD(n.val + 90000, length))

\* A slip: the sign of the value is lost before the offset is added.
_format_coord_unsigned(code, length, field, min_val, max_val) ==
    LET n == PyInt(code)
        offset == IF field = "lat_code" THEN 90000 ELSE 180000
        magnitude == IF n.val < 0 THEN 0 - n.val ELSE n.val
    IN  IF ~n.ok THEN Raise("must be integer", << >>)
        ELSE IF n.val < min_val \/ n.val > max_val THEN Raise("out of range", << >>)
        ELSE Ok(FormatZeroD(magnitude + offset, length))

_format_coord(code, length, field, min_val, max_val) ==
    LET n == PyInt(code)
        offset == IF field = "lat_code" THEN 90000 ELSE 180000
    IN  IF ~n.ok THEN Raise("must be integer", << >>)
        ELSE IF n.val < min_val \/ n.val > max_val THEN Raise("out of range", << >>)
        ELSE Ok(FormatZeroD(n.val + offset, length))

_ensure_numeric(s, length, field) ==
    IF Len(s) # length THEN Raise("wrong number of digits", None)
    ELSE IF ~str_isdigit(s) THEN Raise("must be numeric", None)
    ELSE Ok(None)

_format_time_code(time_str, pad_year) ==
    IF Len(time_str) = 14 /\ str_isdigit(time_str)
    THEN LET p == strptime(time_str)
         IN  IF p.ok THEN Ok(time_str) ELSE Raise(p.err, << >>)
    ELSE LET normalized == ReplaceZ(time_str)
             dt == fromisoformat(normalized)
         IN  IF dt.ok THEN Ok(strftime(dt.val, pad_year)) ELSE Raise(dt.err, << >>)

build_event_info(lat_code, lng_code, time_str, pad_year) ==
    LET time_code == _format_time_code(time_str, pad_year)
    IN  IF ~time_code.ok THEN Raise(time_code.err, NoEvent)
        ELSE EventInfo(lat_code, lng_code, time_code.val)

build_source_info(source_code) == SourceInfo(source_code)

build_carrier_info(carrier_code) == CarrierInfo(carrier_code)

build_disaster_info(category, sub_category, indicator) ==
    DisasterInfo(category, sub_category, indicator)

\* The first failing step of a list of outcomes, or the last outcome.
RECURSIVE FirstFailure(_)
FirstFailure(steps) ==
    IF Len(steps) = 1 \/ ~steps[1].ok THEN steps[1] ELSE FirstFailure(Tail(steps))

\* A slip in the order of concatenation: the carrier before the source.
ConcatSwapped(event_part, source_code, carrier_code, disaster_part) ==
    event_part \o carrier_code \o source_code \o disaster_part

\* encoded = event_part + source.code + carrier.code + disaster_part
ConcatId(event_part, source_code, carrier_code, disaster_part) ==
    event_part \o source_code \o carrier_code \o disaster_part

\* A slip in the order of the statements: the formatting and the width checks
\* ahead of the three validate_* calls.
EncodeOrderFormatFirst ==
    << "lat_code", "lng_code", "source.code", "carrier.code", "disaster.category",
       "disaster.sub_category", "disaster.indicator",
       "validate_source", "validate_carrier", "validate_disaster" >>

\* The checking statements of encode_disaster, in the order they stand.
EncodeOrder ==
    << "validate_source", "validate_carrier", "validate_disaster",
       "lat_code", "lng_code", "source.code", "carrier.code", "disaster.category",
       "disaster.sub_category", "disaster.indicator" >>

\* The outcome of one checking statement of encode_disaster.
EncodeStep(name, event, source, carrier, disaster) ==
    CASE name = "validate_source"  -> validate_source(source.code)
      [] name = "validate_carrier" -> validate_carrier(carrier.code)
      [] name = "validate_disaster" ->
             validate_disaster(disaster.category, disaster.sub_category, disaster.indicator)
      [] name = "lat_code" -> _format_coord(event.lat_code, 6, "lat_code", -90000, 90000)
      [] name = "lng_code" -> _format_coord(event.lng_code, 6, "lng_code", -180000, 180000)
      [] name = "source.code" -> _ensure_numeric(source.code, 3, "source.code")
      [] name = "carrier.code" -> _ensure_numeric(carrier.code, 1, "carrier.code")
      [] name = "disaster.category" -> _ensure_numeric(disaster.category, 1, "disaster.category")
      [] name = "disaster.sub_category" ->
             _ensure_numeric(disaster.sub_category, 2, "disaster.sub_category")
      [] name = "disaster.indicator" ->
             _ensure_numeric(disaster.indicator, 3, "disaster.indicator")

EncodeSteps(event, source, carrier, disaster) ==
    [i \in 1..Len(EncodeOrder) |-> EncodeStep(EncodeOrder[i], event, source, carrier, disaster)]

\* How many of a list of steps are evaluated: up to the first that raises.
RECURSIVE EvaluatedCount(_)
EvaluatedCount(steps) ==
    IF Len(steps) = 0 THEN 0
    ELSE IF ~steps[1].ok THEN 1
    ELSE 1 + EvaluatedCount(Tail(steps))

\* The checking statements one call of encode_disaster evaluates, in order.
encode_evaluated(event, source, carrier, disaster) ==
    SubSeq(EncodeOrder, 1, EvaluatedCount(EncodeSteps(event, source, carrier, disaster)))

encode_disaster(event, source, carrier, disaster) ==
    LET lat_code_fmt == _format_coord(event.lat_code, 6, "lat_code", -90000, 90000)
        lng_code_fmt == _format_coord(event.lng_code, 6, "lng_code", -180000, 180000)
        checks == FirstFailure(EncodeSteps(event, source, carrier, disaster))
        event_part == lat_code_fmt.val \o lng_code_fmt.val \o event.time_code
        disaster_part == disaster.category \o disaster.sub_category \o disaster.indicator
        encoded == ConcatId(event_part, source.code, carrier.code, disaster_part)
    IN  IF ~checks.ok THEN Raise(checks.err, << >>)
        ELSE IF Len(encoded) # ID_TOTAL_LENGTH THEN Raise("encoded ID length mismatch", << >>)
        ELSE Ok(encoded)

\* The tables t after one call of encode_disaster: the lookups of the
\* validate_* calls that are reached.
TablesAfterEncode(t, event, source, carrier, disaster) ==
    LET ran == encode_evaluated(event, source, carrier, disaster)
        Reached(name) == \E i \in 1..Len(ran) : ran[i] = name
        t1 == IF Reached("validate_source") THEN TablesAfterSource(t, source.code) ELSE t
        t2 == IF Reached("validate_carrier") THEN TablesAfterCarrier(t1, carrier.code) ELSE t1
    IN  IF Reached("validate_disaster")
        THEN TablesAfterDisaster(t2, disaster.category, disaster.sub_category,
                                 disaster.indicator)
        ELSE t2

\* A slip: the two coordinate ranges exchanged.
SplitEventPartSwapped(event_part) ==
    [lat_code  |-> Slice(event_part, 6, 12),
     lng_code  |-> Slice(event_part, 0, 6),
     time_code |-> Slice(event_part, 12, Len(event_part))]

\* lat_code = event_part[:6]; lng_code = event_part[6:12]; time_code = event_part[12:]
SplitEventPart(event_part) ==
    [lat_code  |-> Slice(event_part, 0, 6),
     lng_code  |-> Slice(event_part, 6, 12),
     time_code |-> Slice(event_part, 12, Len(event_part))]

_split_id(encoded_id) ==
    LET event_part    == Slice(encoded_id, 0, EVENT_CODE_LEN)
        idx1          == EVENT_CODE_LEN
        source_part   == Slice(encoded_id, idx1, idx1 + SOURCE_CODE_LEN)
        idx2          == idx1 + SOURCE_CODE_LEN
        carrier_part  == Slice(encoded_id, idx2, idx2 + CARRIER_CODE_LEN)
        idx3          == idx2 + CARRIER_CODE_LEN
        disaster_part == Slice(encoded_id, idx3, idx3 + DISASTER_CODE_LEN)
    IN  [lat_code     |-> SplitEventPart(event_part).lat_code,
         lng_code     |-> SplitEventPart(event_part).lng_code,
         time_code    |-> SplitEventPart(event_part).time_code,
         source_part  |-> source_part,
         carrier_part |-> carrier_part,
         category     |-> Slice(disaster_part, 0, 1),
         sub_category |-> Slice(disaster_part, 1, 3),
         indicator    |-> Slice(disaster_part, 3, 6)]

NoNames == [source |-> None, carrier |-> None, disaster_category |-> None,
            disaster_sub_category |-> None, indicator |-> None]

NoRecord == [id |-> << >>, event |-> NoEvent, source |-> NoCode, carrier |-> NoCode,
             disaster |-> NoDisaster, names |-> NoNames]

\* A slip: a longer string is let through.
IdLengthAtLeast(encoded_id) == Len(encoded_id) >= ID_TOTAL_LENGTH

\* if len(encoded_id) != ID_TOTAL_LENGTH: raise
IdLengthOk(encoded_id) == Len(encoded_id) = ID_TOTAL_LENGTH

\* if not encoded_id.isdigit(): raise
IdNumericOk(encoded_id) == str_isdigit(encoded_id)

\* lat_int = int(lat_code_offset) - 90000
lat_int_of(lat_code_offset) == PyInt(lat_code_offset).val - 90000

\* lng_int = int(lng_code_offset) - 180000
lng_int_of(lng_code_offset) == PyInt(lng_code_offset).val - 180000

decode_disaster(encoded_id) ==
    LET parts    == _split_id(encoded_id)
        lat      == PyInt(parts.lat_code)
        lng      == PyInt(parts.lng_code)
        lat_int  == lat_int_of(parts.lat_code)
        lng_int  == lng_int_of(parts.lng_code)
        event    == EventInfo(PyStr(lat_int), PyStr(lng_int), parts.time_code)
        source   == SourceInfo(parts.source_part)
        carrier  == CarrierInfo(parts.carrier_part)
        disaster == DisasterInfo(parts.category, parts.sub_category, parts.indicator)
        source_name    == get_source_name(source.val.code)
        carrier_name   == get_carrier_name(carrier.val.code)
        disaster_names == get_disaster_names(disaster.val.category,
                                             disaster.val.sub_category,
                                             disaster.val.indicator)
        checks == FirstFailure(<<
            IF lat.ok THEN Ok(None) ELSE Raise("invalid literal for int()", None),
            IF lng.ok THEN Ok(None) ELSE Raise("invalid literal for int()", None),
            event, source, carrier, disaster, source_name,
            validate_source(source.val.code),
            validate_carrier(carrier.val.code),
            validate_disaster(disaster.val.category, disaster.val.sub_category,
                              disaster.val.indicator) >>)
        names == [source                |-> source_name.val,
                  carrier               |-> carrier_name,
                  disaster_category     |-> disaster_names.category,
                  disaster_sub_category |-> disaster_names.sub_category,
                  indicator             |-> disaster_names.indicator]
    IN  IF ~IdLengthOk(encoded_id) THEN Raise("encoded id length must be 36", NoRecord)
        ELSE IF ~IdNumericOk(encoded_id) THEN Raise("encoded id must be numeric", NoRecord)
        ELSE IF ~checks.ok THEN Raise(checks.err, NoRecord)
        ELSE Ok([id |-> encoded_id, event |-> event.val, source |-> source.val,
                 carrier |-> carrier.val, disaster |-> disaster.val, names |-> names])

\* Whether one call of decode_disaster gets as far as its dictionary lookups.
decode_reaches_lookups(encoded_id) ==
    LET parts == _split_id(encoded_id)
    IN  /\ IdLengthOk(encoded_id)
        /\ IdNumericOk(encoded_id)
        /\ PyInt(parts.lat_code).ok
        /\ PyInt(parts.lng_code).ok
        /\ EventInfo(PyStr(lat_int_of(parts.lat_code)), PyStr(lng_int_of(parts.lng_code)),
                     parts.time_code).ok
        /\ SourceInfo(parts.source_part).ok
        /\ CarrierInfo(parts.carrier_part).ok
        /\ DisasterInfo(parts.category, parts.sub_category, parts.indicator).ok

\* The tables t after one call of decode_disaster: get_source_name,
\* get_carrier_name and get_disaster_names, and the same lookups again in the
\* validate_* calls.
TablesAfterDecode(t, encoded_id) ==
    LET parts == _split_id(encoded_id)
    IN  IF ~decode_reaches_lookups(encoded_id) THEN t
        ELSE IF ~get_source_name(parts.source_part).ok THEN t
        ELSE TablesAfterDisaster(
                 TablesAfterCarrier(TablesAfterSource(t, parts.source_part),
                                    parts.carrier_part),
                 parts.category, parts.sub_category, parts.indicator)

\* ------------------------------------------------------------------------
\* The location-code layout served over HTTP (code-dictionary/backend and
\* access-storage/app): its records are code-dictionary/backend/codec/models.py;
\* its codec.py is the specification's encodeDisaster / decodeDisaster with a
\* 12-digit location code for the coordinates.
\* ------------------------------------------------------------------------

NoEventA == [location_code |-> << >>, time_code |-> << >>]

NoRecordA == [id |-> << >>, event |-> NoEventA, source |-> NoCode, carrier |-> NoCode,
              disaster |-> NoDisaster, names |-> NoNames]

EventInfoA(location_code, time_code) ==
    IF ~LengthOk(location_code, 12, 12)
    THEN Raise("location_code: length must be 12", NoEventA)
    ELSE IF ~str_isdigit(location_code)
    THEN Raise("location_code must be 12 digits", NoEventA)
    ELSE IF ~LengthOk(time_code, 14, 14)
    THEN Raise("time_code: length must be 14", NoEventA)
    ELSE IF ~str_isdigit(time_code)
    THEN Raise("time_code must be 14 digits in yyyyMMddHHmmss format", NoEventA)
    ELSE Ok([location_code |-> location_code, time_code |-> time_code])

build_event_info_A(location_code, time_str, pad_year) ==
    LET time_code == _format_time_code(time_str, pad_year)
    IN  IF ~time_code.ok THEN Raise(time_code.err, NoEventA)
        ELSE EventInfoA(location_code, time_code.val)

encode_disaster_A(event, source, carrier, disaster) ==
    LET checks == FirstFailure(<<
            validate_source(source.code),
            validate_carrier(carrier.code),
            validate_disaster(disaster.category, disaster.sub_category, disaster.indicator),
            _ensure_numeric(event.location_code, 12, "location_code"),
            _ensure_numeric(event.time_code, 14, "time_code"),
            _ensure_numeric(source.code, 3, "source.code"),
            _ensure_numeric(carrier.code, 1, "carrier.code"),
            _ensure_numeric(disaster.category, 1, "disaster.category"),
            _ensure_numeric(disaster.sub_category, 2, "disaster.sub_category"),
            _ensure_numeric(disaster.indicator, 3, "disaster.indicator") >>)
        event_part == event.location_code \o event.time_code
        disaster_part == disaster.category \o disaster.sub_category \o disaster.indicator
        encoded == ConcatId(event_part, source.code, carrier.code, disaster_part)
    IN  IF ~checks.ok THEN Raise(checks.err, << >>)
        ELSE IF Len(encoded) # ID_TOTAL_LENGTH THEN Raise("encoded ID length mismatch", << >>)
        ELSE Ok(encoded)

decode_disaster_A(encoded_id) ==
    LET parts    == _split_id(encoded_id)
        event    == EventInfoA(Slice(encoded_id, 0, 12), Slice(encoded_id, 12, EVENT_CODE_LEN))
        source   == SourceInfo(parts.source_part)
        carrier  == CarrierInfo(parts.carrier_part)
        disaster == DisasterInfo(parts.category, parts.sub_category, parts.indicator)
        source_name    == get_source_name(source.val.code)
        disaster_names == get_disaster_names(disaster.val.category,
                                             disaster.val.sub_category,
                                             disaster.val.indicator)
        checks == FirstFailure(<<
            event, source, carrier, disaster, source_name,
            validate_source(source.val.code),
            validate_carrier(carrier.val.code),
            validate_disaster(disaster.val.category, disaster.val.sub_category,
                              disaster.val.indicator) >>)
        names == [source                |-> source_name.val,
                  carrier               |-> get_carrier_name(carrier.val.code),
                  disaster_category     |-> disaster_names.category,
                  disaster_sub_category |-> disaster_names.sub_category,
                  indicator             |-> disaster_names.indicator]
    IN  IF ~IdLengthOk(encoded_id) THEN Raise("encoded id length must be 36", NoRecordA)
        ELSE IF ~IdNumericOk(encoded_id) THEN Raise("encoded id must be numeric", NoRecordA)
        ELSE IF ~checks.ok THEN Raise(checks.err, NoRecordA)
        ELSE Ok([id |-> encoded_id, event |-> event.val, source |-> source.val,
                 carrier |-> carrier.val, disaster |-> disaster.val, names |-> names])

\* The tables t after the three validate_* calls, each reached when the one
\* ahead of it has returned.
TablesAfterLegality(t, source_code, carrier_code, disaster) ==
    LET t1 == TablesAfterSource(t, source_code)
        t2 == TablesAfterCarrier(t1, carrier_code)
    IN  IF ~validate_source(source_code).ok THEN t1
        ELSE IF ~validate_carrier(carrier_code).ok THEN t2
        ELSE TablesAfterDisaster(t2, disaster.category, disaster.sub_category,
                                 disaster.indicator)

\* ------------------------------------------------------------------------
\* main.py / codec_router.py: the encode and decode endpoints.
\* ------------------------------------------------------------------------

\* HTTPException(status_code=..., detail=...)
HTTPException(status_code, detail) == [status |-> status_code, detail |-> detail, body |-> << >>]

\* A slip: the except clause is missing or too narrow, the error escapes the
\* handler and the framework answers for it.
ExceptEscapes(outcome) == HTTPException(500, "Internal Server Error")

\* except Exception as exc: raise HTTPException(status_code=400, detail=str(exc))
ExceptException(outcome) == HTTPException(400, outcome.err)

\* The handler's answer: the returned value with status 200, or the except
\* clause's answer to what the try body raised.
HandlerResponse(outcome, body) ==
    IF outcome.ok THEN [status |-> 200, detail |-> "", body |-> body]
    ELSE ExceptException(outcome)

\* The try body of the encode handler.
encode_try_body(req, pad_year) ==
    LET event    == build_event_info_A(req.location_code, req.time_str, pad_year)
        source   == build_source_info(req.source_code)
        carrier  == build_carrier_info(req.carrier_code)
        disaster == build_disaster_info(req.category, req.sub_category, req.indicator)
        built    == FirstFailure(<< event, source, carrier, disaster >>)
    IN  IF ~built.ok THEN Raise(built.err, << >>)
        ELSE encode_disaster_A(event.val, source.val, carrier.val, disaster.val)

\* ------------------------------------------------------------------------
\* The callers' arguments
\* ------------------------------------------------------------------------

\* test_codec.py: EXAMPLE_ID
EXAMPLE_ID ==
    << "6", "3", "2", "6", "2", "6", "2", "0", "0", "2", "0", "6", "2", "0", "2", "1", "0", "5", "2", "2", "0", "2", "0", "4", "0", "0", "1", "0", "1", "0", "3", "0", "2", "0", "0", "1" >>

LatInputs ==
    { << "1", "2" >>,
      << "-", "5" >>,
      << "0", "5" >>,
      << "+", "7" >>,
      << "5" >>,
      << "9", "0", "0", "0", "0" >>,
      << "9", "0", "0", "0", "1" >>,
      << "-", "9", "0", "0", "0", "0" >>,
      << "1", "a" >>,
      << "u3", "u3" >> }

LngInputs ==
    { << "1", "1", "6", "3", "9", "7" >>,
      << "-", "1", "8", "0", "0", "0", "0" >>,
      << "1", "8", "0", "0", "0", "0" >>,
      << "1", "8", "0", "0", "0", "1" >>,
      << "0", "7" >> }

TimeInputs ==
    { << "2", "0", "2", "1", "0", "5", "2", "2", "0", "2", "0", "4", "0", "0" >>,
      << "2", "0", "2", "1", "-", "0", "5", "-", "2", "2", "T", "0", "2", ":", "0", "4", ":", "0", "0", "Z" >>,
      << "2", "0", "2", "1", "-", "0", "5", "-", "2", "2", "T", "0", "2", ":", "0", "4", ":", "0", "0", "+", "0", "8", ":", "0", "0" >>,
      << "2", "0", "2", "1", "-", "0", "5", "-", "2", "2" >>,
      << "2", "0", "2", "1", "0", "2", "3", "0", "0", "0", "0", "0", "0", "0" >>,
      << "2", "0", "2", "1", "-", "1", "3", "-", "0", "1", "T", "0", "0", ":", "0", "0", ":", "0", "0", "Z" >>,
      << "0", "9", "9", "9", "-", "0", "1", "-", "0", "1", "T", "0", "0", ":", "0", "0", ":", "0", "0", "Z" >>,
      << "0", "9", "9", "9", "0", "1", "0", "1", "0", "0", "0", "0", "0", "0" >>,
      << "2", "0", "2", "1", "0", "5", "2", "2", "0", "2", "0", "4", "0" >>,
      << "a", "b", "c" >> }

SourceInputs ==
    { << "1", "0", "1" >>,
      << "2", "0", "5" >>,
      << "9", "9", "9" >>,
      << "1", "0" >>,
      << "1", "a", "1" >> }

CarrierInputs ==
    { << "0" >>,
      << "3" >>,
      << "9" >>,
      << "a" >>,
      << "1", "2" >> }

DisasterInputs ==
    { << << "3" >>, << "0", "2" >>, << "0", "0", "1" >> >>,
      << << "2" >>, << "0", "3" >>, << "0", "0", "2" >> >>,
      << << "5" >>, << "0", "8" >>, << "0", "0", "1" >> >>,
      << << "1" >>, << "0", "1" >>, << "0", "0", "1" >> >>,
      << << "9" >>, << "0", "1" >>, << "0", "0", "1" >> >>,
      << << "3" >>, << "0", "2" >>, << "0", "0", "4" >> >>,
      << << "3" >>, << "2" >>, << "0", "0", "1" >> >> }

\* An ID that encode_disaster returns for lat 12, lng 116397.
BASE_ID_A ==
    << "0", "9", "0", "0", "1", "2", "2", "9", "6", "3", "9", "7", "2", "0", "2", "1", "0", "5", "2", "2", "0", "2", "0", "4", "0", "0", "1", "0", "1", "0", "3", "0", "2", "0", "0", "1" >>

\* An ID whose decoded latitude and longitude have one digit (5 and 7).
BASE_ID_B ==
    << "0", "9", "0", "0", "0", "5", "1", "8", "0", "0", "0", "7", "2", "0", "2", "1", "0", "5", "2", "2", "0", "2", "0", "4", "0", "0", "2", "0", "5", "3", "2", "0", "3", "0", "0", "2" >>

\* An ID that encode_disaster returns for lat -5, lng 180000.
BASE_ID_C ==
    << "0", "8", "9", "9", "9", "5", "3", "6", "0", "0", "0", "0", "2", "0", "2", "1", "0", "5", "2", "2", "0", "2", "0", "4", "0", "0", "2", "0", "5", "3", "2", "0", "3", "0", "0", "2" >>

\* Longest string handed to decode_disaster.
MaxIdLen == 38

\* Characters put in place of one digit of an ID.
SubstChars == {"a", "+", " ", "u3", "s2", "9"}

IdInputs ==
    { BASE_ID_A,
      BASE_ID_B,
      BASE_ID_C,
      EXAMPLE_ID,
      << "0", "9", "0", "0", "1", "2", "2", "9", "6", "3", "9", "7", "2", "0", "2", "1", "0", "5", "2", "2", "0", "2", "0", "4", "0", "0", "1", "0", "1", "0", "9", "0", "1", "0", "0", "1" >>,
      << "0", "9", "0", "0", "1", "2", "2", "9", "6", "3", "9", "7", "2", "0", "2", "1", "0", "5", "2", "2", "0", "2", "0", "4", "0", "0", "9", "9", "9", "0", "3", "0", "2", "0", "0", "1" >>,
      << "0", "9", "0", "0", "1", "2", "2", "9", "6", "3", "9", "7", "2", "0", "2", "1", "0", "5", "2", "2", "0", "2", "0", "4", "0", "0", "1", "0", "1", "9", "3", "0", "2", "0", "0", "1" >>,
      << "0", "9", "0", "0", "1", "2", "2", "9", "6", "3", "9", "7", "2", "0", "2", "1", "0", "5", "2", "2", "0", "2", "0", "4", "0", "0", "1", "0", "1", "0", "5", "0", "8", "0", "0", "1" >>,
      << "0", "9", "0", "0", "1", "2", "2", "9", "6", "3", "9", "7", "2", "0", "2", "1", "0", "5", "2", "2", "0", "2", "0", "4", "0", "0", "1", "0", "1", "0", "1", "0", "1", "0", "0", "1" >>,
      << "1", "8", "0", "0", "0", "0", "3", "6", "0", "0", "0", "0", "2", "0", "2", "1", "0", "5", "2", "2", "0", "2", "0", "4", "0", "0", "1", "0", "1", "0", "3", "0", "2", "0", "0", "1" >>,
      << "0", "0", "0", "0", "0", "0", "0", "0", "0", "0", "0", "0", "2", "0", "2", "1", "0", "5", "2", "2", "0", "2", "0", "4", "0", "0", "1", "0", "1", "0", "3", "0", "2", "0", "0", "1" >>,
      << "1", "8", "0", "0", "0", "1", "2", "9", "6", "3", "9", "7", "2", "0", "2", "1", "0", "5", "2", "2", "0", "2", "0", "4", "0", "0", "1", "0", "1", "0", "3", "0", "2", "0", "0", "1" >>,
      << "0", "9", "0", "0", "1", "2", "3", "6", "0", "0", "0", "1", "2", "0", "2", "1", "0", "5", "2", "2", "0", "2", "0", "4", "0", "0", "1", "0", "1", "0", "3", "0", "2", "0", "0", "1" >>,
      << "0", "9", "0", "0", "1", "2", "2", "9", "6", "3", "9", "7", "9", "9", "9", "9", "9", "9", "9", "9", "9", "9", "9", "9", "9", "9", "1", "0", "1", "0", "3", "0", "2", "0", "0", "1" >> }
    \cup { [b EXCEPT ![p] = c] :
             b \in {BASE_ID_A, BASE_ID_C, EXAMPLE_ID}, p \in 1..ID_TOTAL_LENGTH, c \in SubstChars }
    \cup { [BASE_ID_B EXCEPT ![31] = "9"] }
    \cup { Slice(BASE_ID_A \o BASE_ID_A \o BASE_ID_A, 0, n) : n \in 0..MaxIdLen }
    \cup { Slice(<< " " >> \o BASE_ID_A \o BASE_ID_A, 0, n) : n \in 0..MaxIdLen }

\* ------------------------------------------------------------------------
\* The state machine: one client request against the codec.
\*   args      the request's arguments
\*   pc        the call the client makes next
\*   event, source, carrier, disaster   the builders' outcomes
\*   encoded   the outcome of encode_disaster
\*   decoded   the outcome of decode_disaster
\*   coord     one coordinate taken through _format_coord and back
\*   evaluated the checking statements the last encode_disaster evaluated
\*   lookup    the last call of a function of dictionaries.py, with its result
\*   tried     the outcome of the try body of the encode or decode endpoint
\*   response  the HTTP response of the encode or decode endpoint
\*   tables    (declared with dictionaries.py) the four dictionaries
\* ------------------------------------------------------------------------
VARIABLES args, pc, event, source, carrier, disaster, encoded, decoded, coord,
          evaluated, lookup, response, tried, reencoded, other

\* The storage backend's state: the database session's three tables, the
\* clock read by datetime.utcnow(), the last call and what it answered.
VARIABLES db, clock, call, reply

backend == << db, clock, call, reply >>

\* No row in any table.
EmptyDb == [events |-> {}, records |-> {}, media |-> << >>]

NoCall ==
    [op |-> "none", mode |-> "", body |-> << >>, password |-> "", up_encode |-> TRUE,
     up_decode |-> TRUE, before |-> EmptyDb, at |-> 0]

NoReply ==
    [status |-> 0, detail |-> "", id |-> << >>, archived_count |-> 0, count_ok |-> 0,
     count_err |-> 0]

\* The backend before any request: empty tables, the clock at its origin.
BackendIdle == db = EmptyDb /\ clock = 0 /\ call = NoCall /\ reply = NoReply

vars == << tables, args, pc, event, source, carrier, disaster, encoded, decoded, coord,
           evaluated, lookup, response, tried, reencoded, other, db, clock, call, reply >>

NotCalled(dflt) == [ok |-> FALSE, err |-> "not called", val |-> dflt]

NoArgs == [request |-> "none", location_code |-> << >>, lat_code |-> << >>, lng_code |-> << >>, time_str |-> << >>,
           source_code |-> << >>, carrier_code |-> << >>, category |-> << >>,
           sub_category |-> << >>, indicator |-> << >>, encoded_id |-> << >>]

\* No second call of encode_disaster.
NoOther == [args |-> NoArgs, encoded |-> NotCalled(<< >>)]

CoordIdle == [step |-> "idle", field |-> "none", value |-> 0, code |-> << >>, min_val |-> 0,
              max_val |-> 0, formatted |-> NotCalled(<< >>), back |-> 0]

NoLookup == [fn |-> "none", args |-> << >>, result |-> NotCalled(None)]

NoResponse == [status |-> 0, detail |-> "", body |-> << >>]

NothingCalled ==
    /\ tables = InitialTables
    /\ evaluated = << >>
    /\ lookup = NoLookup
    /\ response = NoResponse
    /\ tried = NotCalled(<< >>)
    /\ event = NotCalled(NoEvent)
    /\ source = NotCalled(NoCode)
    /\ carrier = NotCalled(NoCode)
    /\ disaster = NotCalled(NoDisaster)
    /\ encoded = NotCalled(<< >>)
    /\ decoded = NotCalled(NoRecord)
    /\ reencoded = NotCalled(<< >>)
    /\ other = NoOther
    /\ BackendIdle

\* A request to encode (test_encode_decode_roundtrip's sequence of calls).
InitEncode ==
    /\ pc = "build_event"
    /\ args \in { [NoArgs EXCEPT !.request = "encode", !.lat_code = la, !.lng_code = ln, !.time_str = t,
                                 !.source_code = s, !.carrier_code = c,
                                 !.category = d[1], !.sub_category = d[2],
                                 !.indicator = d[3]] :
                    la \in LatInputs, ln \in LngInputs, t \in TimeInputs,
                    s \in SourceInputs, c \in CarrierInputs, d \in DisasterInputs }

\* A request to decode (test_decode_example_id, test_invalid_length).
InitDecode ==
    /\ pc = "decode"
    /\ args \in { [NoArgs EXCEPT !.request = "decode", !.encoded_id = i] : i \in IdInputs }

\* The codes handed straight to the functions of dictionaries.py (as the
\* /api/dict handlers hand them on from a URL).
LookupChars == {"0", "1", "2", "9", "a", "u3"}

LookupSourceCodes ==
    { << a, b, c >> : a \in LookupChars, b \in LookupChars, c \in LookupChars }
    \cup { << >>, << "1" >>, << "1", "0" >>, << "1", "0", "1", "0" >>, << " ", "1", "0", "1" >> }

LookupCarrierCodes ==
    { << c >> : c \in LookupChars \cup {"3", "4", "5"} } \cup { << >>, << "1", "2" >> }

LookupCategories == { << "1" >>, << "2" >>, << "3" >>, << "5" >>, << "9" >>, << "a" >>, << >> }

LookupSubCategories ==
    { << "0", "1" >>, << "0", "2" >>, << "0", "3" >>, << "0", "8" >>, << "9", "9" >>, << "2" >> }

LookupIndicators ==
    { << "0", "0", "1" >>, << "0", "0", "2" >>, << "0", "0", "4" >>, << "0", "0", "7" >>,
      << "9", "9", "9" >>, << "0", "1" >> }

LookupDomains == { "source", "carrier", "disaster", "indicator", "names" }

\* A client of the dictionaries alone: any sequence of lookups.
InitLookup ==
    /\ pc = "lookup"
    /\ args = [NoArgs EXCEPT !.request = "lookup"]

\* The bodies and paths of the HTTP requests.
LocationInputs ==
    { SubSeq(EXAMPLE_ID, 1, 12), SubSeq(EXAMPLE_ID, 1, 11),
      [SubSeq(EXAMPLE_ID, 1, 12) EXCEPT ![12] = "a"] }

HttpTimeInputs ==
    { SubSeq(EXAMPLE_ID, 13, 26),
      << "2", "0", "2", "1", "-", "0", "5", "-", "2", "2", "T", "0", "2", ":", "0", "4", ":", "0", "0", "Z" >>,
      << "0", "9", "9", "9", "-", "0", "1", "-", "0", "1", "T", "0", "0", ":", "0", "0", ":", "0", "0", "Z" >>,
      << "a", "b", "c" >> }

HttpIdInputs ==
    { EXAMPLE_ID, BASE_ID_A }
    \cup { [EXAMPLE_ID EXCEPT ![p] = c] : p \in {1, 12, 26, 27, 30, 31, 33, 36},
                                          c \in SubstChars }
    \cup { Slice(EXAMPLE_ID \o EXAMPLE_ID, 0, n) : n \in {0, 35, 37} }

\* POST /api/codec/encode
InitHttpEncode ==
    /\ pc = "http_encode"
    /\ args \in { [NoArgs EXCEPT !.request = "http_encode", !.location_code = l, !.time_str = t,
                                 !.source_code = s, !.carrier_code = c,
                                 !.category = d[1], !.sub_category = d[2],
                                 !.indicator = d[3]] :
                    l \in LocationInputs, t \in HttpTimeInputs,
                    s \in SourceInputs, c \in CarrierInputs, d \in DisasterInputs }

\* GET /api/codec/decode/{encoded_id}
InitHttpDecode ==
    /\ pc = "http_decode"
    /\ args \in { [NoArgs EXCEPT !.request = "http_decode", !.encoded_id = i] :
                    i \in HttpIdInputs }

Init ==
    /\ InitEncode \/ InitDecode \/ InitLookup \/ InitHttpEncode \/ InitHttpDecode
    /\ NothingCalled
    /\ coord = CoordIdle

Next_pc(outcome, next) == IF outcome.ok THEN next ELSE "raised"

BuildEventInfo ==
    /\ pc = "build_event"
    /\ \E pad_year \in BOOLEAN :
         event' = build_event_info(args.lat_code, args.lng_code, args.time_str, pad_year)
    /\ pc' = Next_pc(event', "build_source")
    /\ UNCHANGED << tables, args, source, carrier, disaster, encoded, decoded, coord,
                    evaluated, lookup, response, tried, reencoded, other, backend >>

BuildSourceInfo ==
    /\ pc = "build_source"
    /\ source' = build_source_info(args.source_code)
    /\ pc' = Next_pc(source', "build_carrier")
    /\ UNCHANGED << tables, args, event, carrier, disaster, encoded, decoded, coord,
                    evaluated, lookup, response, tried, reencoded, other, backend >>

BuildCarrierInfo ==
    /\ pc = "build_carrier"
    /\ carrier' = build_carrier_info(args.carrier_code)
    /\ pc' = Next_pc(carrier', "build_disaster")
    /\ UNCHANGED << tables, args, event, source, disaster, encoded, decoded, coord,
                    evaluated, lookup, response, tried, reencoded, other, backend >>

BuildDisasterInfo ==
    /\ pc = "build_disaster"
    /\ disaster' = build_disaster_info(args.category, args.sub_category, args.indicator)
    /\ pc' = Next_pc(disaster', "encode")
    /\ UNCHANGED << tables, args, event, source, carrier, encoded, decoded, coord,
                    evaluated, lookup, response, tried, reencoded, other, backend >>

EncodeDisaster ==
    /\ pc = "encode"
    /\ encoded' = encode_disaster(event.val, source.val, carrier.val, disaster.val)
    /\ evaluated' = encode_evaluated(event.val, source.val, carrier.val, disaster.val)
    /\ tables' = TablesAfterEncode(tables, event.val, source.val, carrier.val, disaster.val)
    /\ pc' = Next_pc(encoded', "decode_encoded")
    /\ UNCHANGED << args, event, source, carrier, disaster, decoded, coord, lookup, response, tried, reencoded, other, backend >>

\* decoded = codec.decode_disaster(encoded)
DecodeEncoded ==
    /\ pc = "decode_encoded"
    /\ decoded' = decode_disaster(encoded.val)
    /\ tables' = TablesAfterDecode(tables, encoded.val)
    /\ pc' = Next_pc(decoded', "done")
    /\ UNCHANGED << args, event, source, carrier, disaster, encoded, coord,
                    evaluated, lookup, response, tried, reencoded, other, backend >>

\* record = codec.decode_disaster(EXAMPLE_ID)
DecodeDisaster ==
    /\ pc = "decode"
    /\ decoded' = decode_disaster(args.encoded_id)
    /\ tables' = TablesAfterDecode(tables, args.encoded_id)
    /\ pc' = Next_pc(decoded', "done")
    /\ UNCHANGED << args, event, source, carrier, disaster, encoded, coord,
                    evaluated, lookup, response, tried, reencoded, other, backend >>

\* codec.encode_disaster(record.event, record.source, record.carrier,
\* record.disaster) on the record that decode_disaster returned.
EncodeDecoded ==
    /\ pc = "done" /\ args.request = "decode" /\ decoded.ok
    /\ reencoded = NotCalled(<< >>)
    /\ reencoded' = encode_disaster(decoded.val.event, decoded.val.source,
                                    decoded.val.carrier, decoded.val.disaster)
    /\ tables' = TablesAfterEncode(tables, decoded.val.event, decoded.val.source,
                                   decoded.val.carrier, decoded.val.disaster)
    /\ UNCHANGED << args, pc, event, source, carrier, disaster, encoded, decoded, coord,
                    evaluated, lookup, response, tried, other, backend >>

LookupCall(fn, a, result, after) ==
    /\ pc = "lookup"
    /\ lookup' = [fn |-> fn, args |-> a, result |-> result]
    /\ tables' = after
    /\ pc' = "looked_up"
    /\ UNCHANGED << args, event, source, carrier, disaster, encoded, decoded, coord,
                    evaluated, response, tried, reencoded, other, backend >>

\* The client is done with one result and goes on to its next call, against
\* the tables as the calls so far have left them.
NextLookup ==
    /\ pc = "looked_up"
    /\ pc' = "lookup"
    /\ lookup' = NoLookup
    /\ UNCHANGED << tables, args, event, source, carrier, disaster, encoded, decoded, coord,
                    evaluated, response, tried, reencoded, other, backend >>

GetSourceName ==
    /\ pc = "lookup"
    /\ \E code \in LookupSourceCodes :
         LookupCall("get_source_name", << code >>, get_source_name(code),
                    TablesAfterSource(tables, code))

GetCarrierName ==
    /\ pc = "lookup"
    /\ \E code \in LookupCarrierCodes :
         LookupCall("get_carrier_name", << code >>, Ok(get_carrier_name(code)),
                    TablesAfterCarrier(tables, code))

GetDisasterNames ==
    /\ pc = "lookup"
    /\ \E c \in LookupCategories, sc \in LookupSubCategories, i \in LookupIndicators :
         LookupCall("get_disaster_names", << c, sc, i >>, Ok(get_disaster_names(c, sc, i)),
                    TablesAfterDisaster(tables, c, sc, i))

ValidateSource ==
    /\ pc = "lookup"
    /\ \E code \in LookupSourceCodes :
         LookupCall("validate_source", << code >>, validate_source(code),
                    TablesAfterSource(tables, code))

ValidateCarrier ==
    /\ pc = "lookup"
    /\ \E code \in LookupCarrierCodes :
         LookupCall("validate_carrier", << code >>, validate_carrier(code),
                    TablesAfterCarrier(tables, code))

ValidateDisaster ==
    /\ pc = "lookup"
    /\ \E c \in LookupCategories, sc \in LookupSubCategories, i \in LookupIndicators :
         LookupCall("validate_disaster", << c, sc, i >>, validate_disaster(c, sc, i),
                    TablesAfterDisaster(tables, c, sc, i))

ListDomain ==
    /\ pc = "lookup"
    /\ \E domain \in LookupDomains :
         LookupCall("list_domain", << domain >>, list_domain(domain), tables)

\* def encode(req: EncodeRequest)
HttpEncode ==
    /\ pc = "http_encode"
    /\ \E pad_year \in BOOLEAN :
         tried' = encode_try_body(args, pad_year)
    /\ response' = HandlerResponse(tried', [id |-> tried'.val])
    /\ tables' = IF /\ build_event_info_A(args.location_code, args.time_str, TRUE).ok
                    /\ build_source_info(args.source_code).ok
                    /\ build_carrier_info(args.carrier_code).ok
                    /\ build_disaster_info(args.category, args.sub_category,
                                           args.indicator).ok
                 THEN TablesAfterLegality(tables, args.source_code, args.carrier_code,
                                          [category |-> args.category,
                                           sub_category |-> args.sub_category,
                                           indicator |-> args.indicator])
                 ELSE tables
    /\ pc' = "responded"
    /\ UNCHANGED << args, event, source, carrier, disaster, encoded, decoded, coord,
                    evaluated, lookup, reencoded, other, backend >>

\* def decode(encoded_id: str)
HttpDecode ==
    /\ pc = "http_decode"
    /\ tried' = decode_disaster_A(args.encoded_id)
    /\ response' = HandlerResponse(tried', tried'.val)
    /\ tables' = IF IdLengthOk(args.encoded_id) /\ IdNumericOk(args.encoded_id)
                 THEN TablesAfterDisaster(
                          TablesAfterCarrier(
                              TablesAfterSource(tables, Slice(args.encoded_id, 26, 29)),
                              Slice(args.encoded_id, 29, 30)),
                          Slice(args.encoded_id, 30, 31), Slice(args.encoded_id, 31, 33),
                          Slice(args.encoded_id, 33, 36))
                 ELSE tables
    /\ pc' = "responded"
    /\ UNCHANGED << args, event, source, carrier, disaster, encoded, decoded, coord,
                    evaluated, lookup, reencoded, other, backend >>

Next ==
    \/ GetSourceName
    \/ GetCarrierName
    \/ GetDisasterNames
    \/ ValidateSource
    \/ ValidateCarrier
    \/ ValidateDisaster
    \/ ListDomain
    \/ NextLookup
    \/ HttpEncode
    \/ HttpDecode
    \/ BuildEventInfo
    \/ BuildSourceInfo
    \/ BuildCarrierInfo
    \/ BuildDisasterInfo
    \/ EncodeDisaster
    \/ DecodeEncoded
    \/ DecodeDisaster
    \/ EncodeDecoded

Spec == Init /\ [][Next]_vars

\* The client of the dictionaries on its own.
NextOfLookup ==
    \/ GetSourceName
    \/ GetCarrierName
    \/ GetDisasterNames
    \/ ValidateSource
    \/ ValidateCarrier
    \/ ValidateDisaster
    \/ ListDomain
    \/ NextLookup

InitOfLookup ==
    /\ InitLookup
    /\ NothingCalled
    /\ coord = CoordIdle

SpecLookup == InitOfLookup /\ [][NextOfLookup]_vars

\* The HTTP endpoints on their own.
NextOfHttp == HttpEncode \/ HttpDecode

InitOfHttp ==
    /\ InitHttpEncode \/ InitHttpDecode
    /\ NothingCalled
    /\ coord = CoordIdle

SpecHttp == InitOfHttp /\ [][NextOfHttp]_vars

\* ------------------------------------------------------------------------
\* One coordinate through _format_coord and back through the decoder's
\* subtraction, over a sample of the integers in and around the range.
\* ------------------------------------------------------------------------

\* How far around each end of the range, and around zero, every integer is taken.
EdgeWindow == 40

\* Between those, every CoordStride-th integer of the range is taken.
CoordStride == 97

CoordSamples(min_val, max_val) ==
    (min_val - EdgeWindow)..(min_val + EdgeWindow)
    \cup (0 - EdgeWindow)..EdgeWindow
    \cup (max_val - EdgeWindow)..(max_val + EdgeWindow)
    \cup { v \in min_val..max_val : (v - min_val) % CoordStride = 0 }

InitCoord ==
    /\ args = NoArgs
    /\ pc = "idle"
    /\ NothingCalled
    /\ \E f \in {"lat_code", "lng_code"} :
         LET min_val == IF f = "lat_code" THEN -90000 ELSE -180000
             max_val == IF f = "lat_code" THEN 90000 ELSE 180000
         IN  coord \in { [CoordIdle EXCEPT !.step = "format", !.field = f,
                                          !.value = v, !.code = PyStr(v), !.min_val = min_val,
                                          !.max_val = max_val] :
                           v \in CoordSamples(min_val, max_val) }

\* lat_code_fmt = _format_coord(event.lat_code, 6, "lat_code", -90000, 90000)
FormatCoord ==
    /\ coord.step = "format"
    /\ LET r == _format_coord(coord.code, 6, coord.field, coord.min_val, coord.max_val)
       IN  coord' = [coord EXCEPT !.formatted = r,
                                  !.step = IF r.ok THEN "decode" ELSE "raised"]
    /\ UNCHANGED << tables, args, pc, event, source, carrier, disaster, encoded, decoded,
                    evaluated, lookup, response, tried, reencoded, other, backend >>

\* lat_int = int(lat_code_offset) - 90000
DecodeCoord ==
    /\ coord.step = "decode"
    /\ coord' = [coord EXCEPT !.step = "done",
                              !.back = IF coord.field = "lat_code"
                                       THEN lat_int_of(coord.formatted.val)
                                       ELSE lng_int_of(coord.formatted.val)]
    /\ UNCHANGED << tables, args, pc, event, source, carrier, disaster, encoded, decoded,
                    evaluated, lookup, response, tried, reencoded, other, backend >>

NextCoord == FormatCoord \/ DecodeCoord

SpecCoord == InitCoord /\ [][NextCoord]_vars

\* ------------------------------------------------------------------------
\* Properties
\* ------------------------------------------------------------------------

Returned == pc \in {"done", "raised"}

\* encode_disaster has been called.
EncodeRan == args.request = "encode" /\ disaster.ok /\ pc \in {"decode_encoded", "done", "raised"}

\* decode_disaster has been called, on DecodeArg.
DecodeRan ==
    \/ args.request = "decode" /\ Returned
    \/ args.request = "encode" /\ encoded.ok /\ Returned

DecodeArg == IF args.request = "decode" THEN args.encoded_id ELSE encoded.val

\* The codes that have an entry in the dictionaries.
KnownSource(code) ==
    /\ Len(code) = 3
    /\ << code[1] >> \in DOMAIN SOURCE_DICT
    /\ << code[2], code[3] >> \in DOMAIN SOURCE_DICT[<< code[1] >>]

KnownCarrier(code) == code \in DOMAIN CARRIER_DICT

KnownDisaster(category, sub_category, indicator) ==
    /\ category \in DOMAIN DISASTER_CATEGORY_DICT
    /\ sub_category \in DOMAIN DISASTER_CATEGORY_DICT[category]
    /\ category \in DOMAIN DISASTER_INDICATOR_DICT
    /\ sub_category \in DOMAIN DISASTER_INDICATOR_DICT[category]
    /\ indicator \in DOMAIN DISASTER_INDICATOR_DICT[category][sub_category]

\* C3: whenever encode_disaster returns a value, the value has exactly 36
\* characters: the 26 of the event part (6 of latitude, 6 of longitude, the
\* 14 of the time code), then the 3 of the source code, the 1 of the carrier
\* code and the 6 of the disaster part, in that order.
C3_EncodedLength ==
    encoded.ok =>
        /\ Len(encoded.val) = 36
        /\ AllAscii(SubSeq(encoded.val, 1, 12))
        /\ SubSeq(encoded.val, 13, 26) = event.val.time_code
        /\ SubSeq(encoded.val, 27, 29) = source.val.code
        /\ SubSeq(encoded.val, 30, 30) = carrier.val.code
        /\ SubSeq(encoded.val, 31, 36) =
             disaster.val.category \o disaster.val.sub_category \o disaster.val.indicator

C3_Witness ==
    /\ EncodeRan /\ encoded.ok
    /\ source.val.code = << "2", "0", "5" >> /\ carrier.val.code = << "3" >>

\* C4: decode_disaster raises, and returns no record, for every string whose
\* length is not 36.
C4_WrongLengthFails ==
    (DecodeRan /\ Len(DecodeArg) # 36) => (~decoded.ok /\ decoded.val = NoRecord /\ pc = "raised")

C4_Witness ==
    /\ DecodeRan /\ Len(DecodeArg) = 37 /\ AllAscii(DecodeArg)
    /\ ~decoded.ok /\ decoded.err = "encoded id length must be 36"

\* C5: decode_disaster raises for every string that holds at least one
\* character other than the digits 0 to 9, whatever its length.
C5_NonDigitFails ==
    (DecodeRan /\ ~AllAscii(DecodeArg)) => ~decoded.ok

\* C6: encode_disaster and decode_disaster both raise for every source code,
\* carrier code or disaster (category, sub_category, indicator) combination
\* that has no entry in the dictionaries, numeric and of the right width or not.
C6_UnknownCodesFail ==
    /\ (EncodeRan /\ ~( /\ KnownSource(source.val.code)
                        /\ KnownCarrier(carrier.val.code)
                        /\ KnownDisaster(disaster.val.category, disaster.val.sub_category,
                                         disaster.val.indicator) ))
         => ~encoded.ok
    /\ (DecodeRan /\ Len(DecodeArg) = 36
          /\ ~( /\ KnownSource(SubSeq(DecodeArg, 27, 29))
                /\ KnownCarrier(SubSeq(DecodeArg, 30, 30))
                /\ KnownDisaster(SubSeq(DecodeArg, 31, 31), SubSeq(DecodeArg, 32, 33),
                                 SubSeq(DecodeArg, 34, 36)) ))
         => ~decoded.ok

\* A numeric disaster combination of the right widths whose category and
\* sub-category are named and whose indicator is not.
C6_Witness ==
    /\ EncodeRan /\ ~encoded.ok
    /\ KnownSource(source.val.code) /\ KnownCarrier(carrier.val.code)
    /\ disaster.val = [category |-> << "3" >>, sub_category |-> << "0", "2" >>,
                       indicator |-> << "0", "0", "4" >>]

\* C7: for every latitude in [-90000, 90000] and longitude in [-180000, 180000],
\* _format_coord adds 90000 / 180000 and pads with zeros to exactly 6 digits,
\* and the decoder's subtraction of the same offset gives the integer back.
C7_OffsetSymmetry ==
    LET offset == IF coord.field = "lat_code" THEN 90000 ELSE 180000
        in_range == coord.min_val <= coord.value /\ coord.value <= coord.max_val
    IN  (coord.step \in {"decode", "done", "raised"} /\ in_range) =>
            /\ coord.formatted.ok
            /\ Len(coord.formatted.val) = 6
            /\ AllAscii(coord.formatted.val)
            /\ DigitsValue(coord.formatted.val) = coord.value + offset
            /\ coord.step = "done" => coord.back = coord.value

C7_Witness ==
    /\ coord.step = "done" /\ coord.field = "lng_code"
    /\ coord.value = -180000 /\ coord.back = -180000
    /\ coord.formatted.val = << "0", "0", "0", "0", "0", "0" >>

SourceNames == UNION { { SOURCE_DICT[c][s] : s \in DOMAIN SOURCE_DICT[c] } : c \in DOMAIN SOURCE_DICT }

CarrierNames == { CARRIER_DICT[c] : c \in DOMAIN CARRIER_DICT }

CategoryNames ==
    UNION { { DISASTER_CATEGORY_DICT[c][s] : s \in DOMAIN DISASTER_CATEGORY_DICT[c] } :
            c \in DOMAIN DISASTER_CATEGORY_DICT }

IndicatorNames ==
    UNION { UNION { { DISASTER_INDICATOR_DICT[c][s][i] : i \in DOMAIN DISASTER_INDICATOR_DICT[c][s] } :
                    s \in DOMAIN DISASTER_INDICATOR_DICT[c] } :
            c \in DOMAIN DISASTER_INDICATOR_DICT }

\* C10: every record decode_disaster returns carries names for exactly the
\* five keys source, carrier, disaster_category, disaster_sub_category and
\* indicator, each a non-empty name of the dictionaries: never None, never "".
C10_NamesPresent ==
    (DecodeRan /\ decoded.ok) =>
        LET names == decoded.val.names
        IN  /\ DOMAIN names = {"source", "carrier", "disaster_category",
                               "disaster_sub_category", "indicator"}
            /\ \A k \in DOMAIN names : names[k] # None /\ names[k] # ""
            /\ names.source \in SourceNames
            /\ names.carrier \in CarrierNames
            /\ names.disaster_category \in CategoryNames
            /\ names.disaster_sub_category \in CategoryNames
            /\ names.indicator \in IndicatorNames

C10_Witness ==
    /\ DecodeRan /\ decoded.ok
    /\ decoded.val.names.source = "other"
    /\ decoded.val.names.indicator = "degree of damage"

\* C1: round trip.  For every tuple the builders accept and encode_disaster
\* encodes, decode_disaster of the encoded string succeeds, its id is the
\* encoded string, and each decoded field equals the input field: the
\* coordinates as the integers they denote, the time code as normalised by
\* build_event_info, the codes character for character.
C1_RoundTrip ==
    (args.request = "encode" /\ encoded.ok /\ Returned) =>
        /\ decoded.ok
        /\ decoded.val.id = encoded.val
        /\ PyInt(decoded.val.event.lat_code) = PyInt(args.lat_code)
        /\ PyInt(decoded.val.event.lng_code) = PyInt(args.lng_code)
        /\ decoded.val.event.time_code = event.val.time_code
        /\ decoded.val.source.code = args.source_code
        /\ decoded.val.carrier.code = args.carrier_code
        /\ decoded.val.disaster.category = args.category
        /\ decoded.val.disaster.sub_category = args.sub_category
        /\ decoded.val.disaster.indicator = args.indicator

\* C2: decoding the example ID 632626200206202105220204001010302001 returns
\* a record with that id whose location digits are 632626200206, time_code
\* 20210522020400, source 101, carrier 0, category 3, sub_category 02,
\* indicator 001 and a non-empty indicator name.
C2_ExampleDecodes ==
    (args.request = "decode" /\ args.encoded_id = EXAMPLE_ID /\ Returned) =>
        /\ decoded.ok
        /\ decoded.val.id = EXAMPLE_ID
        /\ SubSeq(decoded.val.id, 1, 12) = SubSeq(EXAMPLE_ID, 1, 12)
        /\ decoded.val.event.time_code = SubSeq(EXAMPLE_ID, 13, 26)
        /\ decoded.val.source.code = << "1", "0", "1" >>
        /\ decoded.val.carrier.code = << "0" >>
        /\ decoded.val.disaster.category = << "3" >>
        /\ decoded.val.disaster.sub_category = << "0", "2" >>
        /\ decoded.val.disaster.indicator = << "0", "0", "1" >>
        /\ decoded.val.names.indicator \notin {None, ""}

\* The ISO-8601 form YYYY-MM-DDTHH:MM:SSZ, and the compact form of the same
\* instant: its fourteen digits.
IsoZForm(s) ==
    /\ Len(s) = 20 /\ s[11] = "T" /\ s[20] = "Z"
    /\ IsoDateShape(s) /\ IsoTimeShape(s)

CompactOf(s) ==
    SubSeq(s, 1, 4) \o SubSeq(s, 6, 7) \o SubSeq(s, 9, 10)
    \o SubSeq(s, 12, 13) \o SubSeq(s, 15, 16) \o SubSeq(s, 18, 19)

\* C9: build_event_info given the ISO-8601 form with a trailing Z does what
\* it does given the 14-digit compact form of the same instant, and produces
\* the identical time_code; every time_code it produces is exactly 14 digits;
\* and it raises for an input that parses as neither form.
C9_TimestampNormalization ==
    (args.request = "encode" /\ pc # "build_event") =>
        /\ event.ok => (Len(event.val.time_code) = 14 /\ str_isdigit(event.val.time_code))
        /\ IsoZForm(args.time_str) =>
             \A pad_year \in BOOLEAN :
                LET compact == build_event_info(args.lat_code, args.lng_code,
                                                CompactOf(args.time_str), pad_year)
                IN  /\ compact.ok = event.ok
                    /\ event.ok => compact.val.time_code = event.val.time_code
        /\ (~strptime(args.time_str).ok /\ ~fromisoformat(ReplaceZ(args.time_str)).ok)
             => ~event.ok

\* The messages of the three kinds of failure of the codec and the dictionaries.
UnknownCodeErrors ==
    { "unknown source code", "unknown carrier code", "unknown disaster code combination" }

FormatErrors ==
    { "source code must be 3 digits", "wrong number of digits", "must be numeric",
      "must be integer", "invalid literal for int()",
      "encoded id length must be 36", "encoded id must be numeric", "encoded ID length mismatch",
      "lat_code: length must be 2..8", "lng_code: length must be 2..8",
      "lat_code: invalid literal for int()", "lng_code: invalid literal for int()",
      "time_code: length must be 14", "time_code must be 14 digits in yyyyMMddHHmmss format",
      "code: length must be 3", "code: length must be 1", "category: length must be 1",
      "sub_category: length must be 2", "indicator: length must be 3" }

RangeErrors ==
    { "out of range", "lat_code out of range [-90000,90000]",
      "lng_code out of range [-180000,180000]" }

\* A code field of the width the layout gives it, all of it numeric.
NumericOfWidth(s, width) == Len(s) = width /\ str_isdigit(s)

\* The code fields handed to encode_disaster are all of their width and numeric.
EncodeFieldsWellFormed ==
    /\ NumericOfWidth(source.val.code, SOURCE_CODE_LEN)
    /\ NumericOfWidth(carrier.val.code, CARRIER_CODE_LEN)
    /\ NumericOfWidth(disaster.val.category, 1)
    /\ NumericOfWidth(disaster.val.sub_category, 2)
    /\ NumericOfWidth(disaster.val.indicator, 3)

\* C11: encode_disaster and decode_disaster reject an input with a field of the
\* wrong length or with a non-numeric character with a format error, raised
\* ahead of every dictionary lookup, and never with an unknown-code error.
C11_FormatErrorsFirst ==
    /\ (EncodeRan /\ ~EncodeFieldsWellFormed)
         => /\ ~encoded.ok
            /\ encoded.err \in FormatErrors
            /\ encoded.err \notin UnknownCodeErrors
    /\ (DecodeRan /\ ~NumericOfWidth(DecodeArg, ID_TOTAL_LENGTH))
         => /\ ~decoded.ok
            /\ decoded.err \in FormatErrors
            /\ decoded.err \notin UnknownCodeErrors

\* The first step of encode_disaster: the three dictionary legality checks.
LegalitySteps == << "validate_source", "validate_carrier", "validate_disaster" >>

\* C12: encode_disaster checks the codes against the dictionaries (source, then
\* carrier, then disaster) ahead of everything else: a call given a code with
\* no entry raises in that step, at the first such code in that order, and
\* evaluates no coordinate formatting and no width check.
C12_DictionaryChecksFirst ==
    EncodeRan =>
      LET known_s == KnownSource(source.val.code)
          known_c == KnownCarrier(carrier.val.code)
          known_d == KnownDisaster(disaster.val.category, disaster.val.sub_category,
                                   disaster.val.indicator)
      IN  /\ Len(evaluated) >= 1
          /\ \A i \in 1..Len(evaluated) : i <= 3 => evaluated[i] = LegalitySteps[i]
          /\ ~known_s => Len(evaluated) = 1
          /\ (known_s /\ ~known_c) => Len(evaluated) = 2
          /\ (known_s /\ known_c /\ ~known_d) => Len(evaluated) = 3
          /\ ~(known_s /\ known_c /\ known_d)
               => /\ ~encoded.ok
                  /\ encoded.err \in UnknownCodeErrors \cup {"source code must be 3 digits"}
          /\ (known_s /\ known_c /\ known_d) => Len(evaluated) > 3

\* An unknown carrier under a known source: the call stops at validate_carrier.
C12_Witness ==
    /\ EncodeRan /\ ~encoded.ok
    /\ KnownSource(source.val.code)
    /\ carrier.val.code = << "9" >>
    /\ evaluated = << "validate_source", "validate_carrier" >>
    /\ encoded.err = "unknown carrier code"

\* A string of 36 of the digits 0-9 whose disaster category digit is 9.
Category9Id(id) == Len(id) = ID_TOTAL_LENGTH /\ AllAscii(id) /\ id[31] = "9"

\* C13 as stated: decoding a well-formed 36-digit string whose category digit
\* is 9 fails with an unknown-code error, whatever the other 35 digits are.
C13_Category9UnknownCode ==
    (DecodeRan /\ Category9Id(DecodeArg))
      => ~decoded.ok /\ decoded.err \in UnknownCodeErrors

\* The coordinate digits of an ID give values EventInfo accepts: in range, and
\* written with at least two characters.
CoordDigitsAccepted(id) ==
    LET lat == DigitsValue(SubSeq(id, 1, 6)) - 90000
        lng == DigitsValue(SubSeq(id, 7, 12)) - 180000
    IN  /\ lat \in -90000..90000 /\ lat \notin 0..9
        /\ lng \in -180000..180000 /\ lng \notin 0..9

\* C13, amended: decoding a string of 36 digits 0-9 whose category digit is 9
\* always fails; with an unknown-code error when EventInfo accepts the
\* coordinate digits, and with EventInfo's range or length error when it does
\* not, the event fields being validated ahead of the dictionary checks.
C13_Category9Fails ==
    (DecodeRan /\ Category9Id(DecodeArg))
      => /\ ~decoded.ok
         /\ CoordDigitsAccepted(DecodeArg) => decoded.err \in UnknownCodeErrors
         /\ ~CoordDigitsAccepted(DecodeArg)
              => decoded.err \in RangeErrors \cup { "lat_code: length must be 2..8",
                                                     "lng_code: length must be 2..8" }

\* A category-9 ID with a known source and carrier and coordinates in range.
C13_Witness ==
    /\ DecodeRan /\ Category9Id(DecodeArg) /\ CoordDigitsAccepted(DecodeArg)
    /\ KnownSource(SubSeq(DecodeArg, 27, 29)) /\ KnownCarrier(SubSeq(DecodeArg, 30, 30))
    /\ decoded.err = "unknown disaster code combination"

\* A coordinate string that int() reads as a value outside [-bound, bound].
OutOfRange(code, bound) == PyInt(code).ok /\ (PyInt(code).val < -bound \/ PyInt(code).val > bound)

\* The request's coordinates in an event record that no validator has seen,
\* as encode_disaster is handed one, with codes the dictionaries know.
encode_unvalidated_event ==
    encode_disaster([lat_code |-> args.lat_code, lng_code |-> args.lng_code,
                     time_code |-> SubSeq(BASE_ID_A, 13, 26)],
                    [code |-> << "1", "0", "1" >>], [code |-> << "0" >>],
                    [category |-> << "3" >>, sub_category |-> << "0", "2" >>,
                     indicator |-> << "0", "0", "1" >>])

WidthOrCharsetErrors ==
    { "source code must be 3 digits", "wrong number of digits", "must be numeric" }

\* C15: build_source_info, build_carrier_info and build_disaster_info reject
\* every input that is not all digits of the exact field width (3, 1, and
\* 1/2/3), so a record a builder accepts never fails a width or numeric check
\* inside encode_disaster.
C15_BuildersMatchCodec ==
    /\ source.ok => NumericOfWidth(args.source_code, SOURCE_CODE_LEN)
    /\ carrier.ok => NumericOfWidth(args.carrier_code, CARRIER_CODE_LEN)
    /\ disaster.ok => /\ NumericOfWidth(args.category, 1)
                      /\ NumericOfWidth(args.sub_category, 2)
                      /\ NumericOfWidth(args.indicator, 3)
    /\ EncodeRan => encoded.err \notin WidthOrCharsetErrors

\* A function of dictionaries.py has been called and has returned or raised.
LookedUp(fn) == pc = "looked_up" /\ lookup.fn = fn

\* (category, sub_category) has a name in the disaster-category dictionary.
HasCategoryName(category, sub_category) ==
    /\ category \in DOMAIN DISASTER_CATEGORY_DICT
    /\ sub_category \in DOMAIN DISASTER_CATEGORY_DICT[category]

\* (category, sub_category, indicator) has a name in the indicator dictionary.
HasIndicatorName(category, sub_category, indicator) ==
    /\ category \in DOMAIN DISASTER_INDICATOR_DICT
    /\ sub_category \in DOMAIN DISASTER_INDICATOR_DICT[category]
    /\ indicator \in DOMAIN DISASTER_INDICATOR_DICT[category][sub_category]

\* C16: validate_disaster(category, sub_category, indicator) returns exactly
\* when (category, sub_category) has a name in the disaster-category dictionary
\* and (category, sub_category, indicator) has a name in the indicator
\* dictionary; in every other case it raises.
C16_ValidateDisaster ==
    LookedUp("validate_disaster") =>
      LET a == lookup.args
      IN  /\ lookup.result.ok <=> /\ HasCategoryName(a[1], a[2])
                                   /\ HasIndicatorName(a[1], a[2], a[3])
          /\ ~lookup.result.ok => lookup.result.err = "unknown disaster code combination"

\* (1, 01, 001) has an indicator name and no category name: the call raises.
C16_Witness ==
    /\ LookedUp("validate_disaster")
    /\ lookup.args = << << "1" >>, << "0", "1" >>, << "0", "0", "1" >> >>
    /\ ~lookup.result.ok

\* C17: get_disaster_names returns, for every input, the same value under
\* "category" and "sub_category", and so every decoded record has
\* names.disaster_sub_category equal to names.disaster_category.
C17_SubCategoryQuirk ==
    /\ LookedUp("get_disaster_names")
         => lookup.result.val.sub_category = lookup.result.val.category
    /\ (DecodeRan /\ decoded.ok)
         => decoded.val.names.disaster_sub_category = decoded.val.names.disaster_category

\* A decoded record whose two names are both the category's name.
C17_Witness ==
    /\ DecodeRan /\ decoded.ok
    /\ decoded.val.disaster.category = << "3" >>
    /\ decoded.val.disaster.sub_category = << "0", "2" >>
    /\ decoded.val.names.disaster_sub_category = DISASTER_CATEGORY_DICT[<< "3" >>][<< "0", "2" >>]
    /\ decoded.val.names.disaster_category = DISASTER_CATEGORY_DICT[<< "3" >>][<< "0", "2" >>]

\* C18: get_source_name raises a format error for every code that is not
\* exactly 3 digits; for a 3-digit code it returns the name stored under
\* category = first digit and sub-code = last two digits, or None when there
\* is no such entry, and never an empty name.
C18_GetSourceName ==
    LookedUp("get_source_name") =>
      LET code == lookup.args[1]
          three_digits == Len(code) = 3 /\ AllAscii(code)
      IN  /\ ~three_digits
               => ~lookup.result.ok /\ lookup.result.err = "source code must be 3 digits"
          /\ three_digits
               => /\ lookup.result.ok
                  /\ lookup.result.val # ""
                  /\ lookup.result.val =
                       IF KnownSource(code)
                       THEN SOURCE_DICT[<< code[1] >>][<< code[2], code[3] >>]
                       ELSE None

\* C19: the dictionaries are read-only: after any sequence of encode_disaster,
\* decode_disaster, get_source_name, get_carrier_name, get_disaster_names,
\* validate_* and list_domain calls, returning or raising, the source, carrier,
\* disaster-category and indicator tables hold what they held at import, and
\* list_domain hands out exactly that.
C19_TablesReadOnly ==
    /\ tables = InitialTables
    /\ tables.source = SOURCE_DICT
    /\ tables.carrier = CARRIER_DICT
    /\ tables.disaster = DISASTER_CATEGORY_DICT
    /\ tables.indicator = DISASTER_INDICATOR_DICT
    /\ (LookedUp("list_domain") /\ lookup.args = << "indicator" >>)
         => lookup.result.val = DISASTER_INDICATOR_DICT

\* A lookup of a source category the table has no key for has raised.
C19_Witness ==
    /\ LookedUp("validate_source")
    /\ lookup.args = << << "9", "0", "0" >> >>
    /\ lookup.result.err = "unknown source code"
    /\ tables.source = SOURCE_DICT

\* An HTTP handler has answered.
Responded(request) == args.request = request /\ pc = "responded"

\* C20: the encode and decode endpoints answer every error raised by the
\* builders or the codec with status 400 and the error's message as detail;
\* on success encode answers {id} and decode the decoded record; no error of
\* the core leaves a handler as another status.
C20_ErrorsBecome400 ==
    /\ Responded("http_encode")
         => /\ response.status \in {200, 400}
            /\ tried.ok
                 => /\ response.status = 200
                    /\ response.body = [id |-> tried.val]
                    /\ Len(response.body.id) = ID_TOTAL_LENGTH
            /\ ~tried.ok
                 => /\ response.status = 400
                    /\ response.detail = tried.err
                    /\ response.detail \notin {"", "not called"}
            /\ ( \/ Len(args.location_code) # 12
                 \/ ~KnownSource(args.source_code)
                 \/ ~KnownCarrier(args.carrier_code)
                 \/ ~KnownDisaster(args.category, args.sub_category, args.indicator) )
                 => response.status = 400
    /\ Responded("http_decode")
         => /\ response.status \in {200, 400}
            /\ tried.ok
                 => /\ response.status = 200
                    /\ response.body = tried.val
                    /\ response.body.id = args.encoded_id
            /\ ~tried.ok
                 => /\ response.status = 400
                    /\ response.detail = tried.err
                    /\ response.detail \notin {"", "not called"}
            /\ Len(args.encoded_id) # ID_TOTAL_LENGTH => response.status = 400

\* The encode endpoint has answered 400 for a carrier code with no entry.
C20_Witness ==
    /\ Responded("http_encode")
    /\ args.carrier_code = << "9" >>
    /\ response.status = 400
    /\ response.detail = "unknown carrier code"

\* C21: decode_disaster returns for every 36-digit ID whose lat digits are in
\* [000000, 180000], whose lng digits are in [000000, 360000] and whose
\* source, carrier and disaster codes have entries in the dictionaries; in
\* particular it returns for every ID that encode_disaster returns.
C21_DecodeSucceedsInRange ==
    /\ (DecodeRan /\ Len(DecodeArg) = ID_TOTAL_LENGTH /\ AllAscii(DecodeArg)
          /\ DigitsValue(SubSeq(DecodeArg, 1, 6)) \in 0..180000
          /\ DigitsValue(SubSeq(DecodeArg, 7, 12)) \in 0..360000
          /\ KnownSource(SubSeq(DecodeArg, 27, 29))
          /\ KnownCarrier(SubSeq(DecodeArg, 30, 30))
          /\ KnownDisaster(SubSeq(DecodeArg, 31, 31), SubSeq(DecodeArg, 32, 33),
                           SubSeq(DecodeArg, 34, 36)))
         => decoded.ok
    /\ (args.request = "encode" /\ encoded.ok /\ Returned) => decoded.ok

\* decode_disaster accepted the submitted ID and encode_disaster was called on
\* the four records it returned.
Reencoded == args.request = "decode" /\ decoded.ok /\ reencoded # NotCalled(<< >>)

\* C22: for every ID that decode_disaster accepts, encode_disaster on the
\* decoded event, source, carrier and disaster records returns exactly the
\* original 36-digit ID.
C22_ReverseRoundTrip ==
    Reencoded => (reencoded.ok /\ reencoded.val = args.encoded_id)

\* The same, for the accepted IDs made of the digits 0-9 only.
C22_AsciiReverseRoundTrip ==
    (Reencoded /\ AllAscii(args.encoded_id))
        => (reencoded.ok /\ reencoded.val = args.encoded_id)

(***************************************************************************)
(* Two calls of encode_disaster, each on records built from its own        *)
(* arguments.                                                              *)
(***************************************************************************)
PairLatInputs ==
    { << "0", "5" >>, << "+", "5" >>, << "-", "5" >>, << "9", "0", "0", "0", "0" >> }

PairLngInputs ==
    { << "0", "7" >>, << "-", "0", "7" >> }

PairTimeInputs ==
    { << "2", "0", "2", "1", "0", "5", "2", "2", "0", "2", "0", "4", "0", "0" >>,
      << "2", "0", "2", "1", "0", "5", "2", "2", "0", "2", "0", "4", "0", "3" >>,
      << "2", "0", "2", "1", "0", "5", "2", "2", "0", "2", "0", "4", "0", "u3" >> }

PairSourceInputs == { << "1", "0", "1" >>, << "2", "0", "5" >> }

PairCarrierInputs == { << "0" >>, << "3" >> }

PairDisasterInputs ==
    { << << "3" >>, << "0", "2" >>, << "0", "0", "1" >> >>,
      << << "2" >>, << "0", "2" >>, << "0", "0", "2" >> >> }

PairInputs ==
    { [NoArgs EXCEPT !.request = "encode_pair", !.lat_code = la, !.lng_code = ln,
                     !.time_str = t, !.source_code = s, !.carrier_code = c,
                     !.category = d[1], !.sub_category = d[2], !.indicator = d[3]] :
        la \in PairLatInputs, ln \in PairLngInputs, t \in PairTimeInputs,
        s \in PairSourceInputs, c \in PairCarrierInputs, d \in PairDisasterInputs }

\* encode_disaster(EventInfo(...), SourceInfo(...), CarrierInfo(...),
\* DisasterInfo(...)) on the fields of a.
encode_records(a) ==
    LET event_info    == EventInfo(a.lat_code, a.lng_code, a.time_str)
        source_info   == SourceInfo(a.source_code)
        carrier_info  == CarrierInfo(a.carrier_code)
        disaster_info == DisasterInfo(a.category, a.sub_category, a.indicator)
        built == FirstFailure(<< event_info, source_info, carrier_info, disaster_info >>)
    IN  IF ~built.ok THEN Raise(built.err, << >>)
        ELSE encode_disaster(event_info.val, source_info.val, carrier_info.val,
                             disaster_info.val)

\* The tables t after that call: its lookups happen once the records are built.
TablesAfterRecords(t, a) ==
    LET event_info    == EventInfo(a.lat_code, a.lng_code, a.time_str)
        source_info   == SourceInfo(a.source_code)
        carrier_info  == CarrierInfo(a.carrier_code)
        disaster_info == DisasterInfo(a.category, a.sub_category, a.indicator)
    IN  IF event_info.ok /\ source_info.ok /\ carrier_info.ok /\ disaster_info.ok
        THEN TablesAfterEncode(t, event_info.val, source_info.val, carrier_info.val,
                               disaster_info.val)
        ELSE t

InitPair ==
    /\ NothingCalled
    /\ coord = CoordIdle
    /\ pc = "encode_first"
    /\ args \in PairInputs

EncodeFirst ==
    /\ pc = "encode_first"
    /\ encoded' = encode_records(args)
    /\ tables' = TablesAfterRecords(tables, args)
    /\ pc' = "encode_second"
    /\ UNCHANGED << args, event, source, carrier, disaster, decoded, coord,
                    evaluated, lookup, response, tried, reencoded, other, backend >>

EncodeSecond ==
    /\ pc = "encode_second"
    /\ \E b \in PairInputs :
         /\ other' = [args |-> b, encoded |-> encode_records(b)]
         /\ tables' = TablesAfterRecords(tables, b)
    /\ pc' = "encoded_both"
    /\ UNCHANGED << args, event, source, carrier, disaster, encoded, decoded,
                    coord, evaluated, lookup, response, tried, reencoded, backend >>

NextPair == EncodeFirst \/ EncodeSecond

SpecPair == InitPair /\ [][NextPair]_vars

\* Both calls of encode_disaster returned an ID.
EncodedBoth == pc = "encoded_both" /\ encoded.ok /\ other.encoded.ok

\* The two inputs differ in the integer latitude, the integer longitude, the
\* time_code, the source code, the carrier code or the disaster codes.
DifferInMeaning(a, b) ==
    \/ PyInt(a.lat_code).val # PyInt(b.lat_code).val
    \/ PyInt(a.lng_code).val # PyInt(b.lng_code).val
    \/ a.time_str # b.time_str
    \/ a.source_code # b.source_code
    \/ a.carrier_code # b.carrier_code
    \/ a.category # b.category
    \/ a.sub_category # b.sub_category
    \/ a.indicator # b.indicator

\* C23: two valid inputs of encode_disaster that differ in the integer
\* latitude, the integer longitude, the time_code, the source code, the carrier
\* code or any of category / sub_category / indicator never get the same ID.
C23_EncodeInjective ==
    (EncodedBoth /\ DifferInMeaning(args, other.args)) => encoded.val # other.encoded.val

\* Two inputs that differ only in the sign of the latitude got two IDs.
C23_Witness ==
    /\ EncodedBoth
    /\ args.lat_code = << "-", "5" >> /\ other.args.lat_code = << "0", "5" >>
    /\ [args EXCEPT !.lat_code = << >>] = [other.args EXCEPT !.lat_code = << >>]
    /\ encoded.val # other.encoded.val

\* Two spellings of one latitude got one ID.
C23_SameMeaningSameId ==
    /\ EncodedBoth
    /\ args.lat_code = << "+", "5" >> /\ other.args.lat_code = << "0", "5" >>
    /\ [args EXCEPT !.lat_code = << >>] = [other.args EXCEPT !.lat_code = << >>]
    /\ encoded.val = other.encoded.val

\* (category, sub_category) has at least one indicator in the indicator
\* dictionary.
HasIndicators(category, sub_category) ==
    /\ category \in DOMAIN DISASTER_INDICATOR_DICT
    /\ sub_category \in DOMAIN DISASTER_INDICATOR_DICT[category]
    /\ DOMAIN DISASTER_INDICATOR_DICT[category][sub_category] # {}

\* C24: the (category, sub_category) pairs that have a name in the
\* disaster-category dictionary are the pairs that have indicators in the
\* indicator dictionary, so every indicator code that get_disaster_names
\* resolves to a name is accepted by validate_disaster, and every named
\* sub-category has an indicator.
C24_DictionariesConsistent ==
    LookedUp("get_disaster_names") =>
      LET a == lookup.args
          names == lookup.result.val
      IN  /\ (names.category # None) <=> HasIndicators(a[1], a[2])
          /\ names.indicator # None => validate_disaster(a[1], a[2], a[3]).ok

(***************************************************************************)
(* disaster_backend: ingestion through the codec service, storage and      *)
(* retention.  Times are whole days on the clock that datetime.utcnow()    *)
(* reads; the event time of a row is the decoded date-time record.         *)
(***************************************************************************)
\* settings.py: RETENTION_INACTIVE_DAYS = 365 * 3
RETENTION_INACTIVE_DAYS == 365 * 3

\* main.py imports ADMIN_PASSWORD from settings; any fixed string.
ADMIN_PASSWORD == "admin-password"

\* response_model=DecodedRecord: the body of the decode handler's answer is the
\* record that decode_disaster returned.
DecodeResponse(outcome) == HandlerResponse(outcome, outcome.val)

\* return {"id": encoded_id}
EncodeResponse(outcome) == HandlerResponse(outcome, [id |-> outcome.val])

\* The try body of the encode handler once the four records are built.
encode_built(event_info, source_info, carrier_info, disaster_info) ==
    EncodeResponse(
        IF ~FirstFailure(<< event_info, source_info, carrier_info, disaster_info >>).ok
        THEN Raise(FirstFailure(<< event_info, source_info, carrier_info,
                                   disaster_info >>).err, << >>)
        ELSE encode_disaster(event_info.val, source_info.val, carrier_info.val,
                             disaster_info.val))

\* GET {CODEC_API_URL}/codec/decode/{id}: the decoded record as JSON, or the
\* codec's error as a 400 response carrying its message.
codec_service_decode(disaster_id) == DecodeResponse(decode_disaster(disaster_id))

\* POST {CODEC_API_URL}/codec/encode: {id: string}, or the codec's error as a
\* 400 response carrying its message.
codec_service_encode(payload, pad_year) ==
    encode_built(build_event_info(payload.event.latCode, payload.event.lngCode,
                                  payload.event.time, pad_year),
                 build_source_info(payload.source.code),
                 build_carrier_info(payload.carrier.code),
                 build_disaster_info(payload.disaster.categoryCode,
                                     payload.disaster.subCategoryCode,
                                     payload.disaster.indicatorCode))

\* What decode_disaster_id returns when it raises.
NoDecoded ==
    [event    |-> [latCode |-> << >>, lngCode |-> << >>, time |-> NoDateTime],
     source   |-> [code |-> << >>, name |-> ""],
     carrier  |-> [code |-> << >>, name |-> ""],
     disaster |-> [categoryCode |-> << >>, categoryName |-> "",
                   subCategoryCode |-> << >>, subCategoryName |-> "",
                   indicatorCode |-> << >>, indicatorName |-> ""]]

\* names.get(key) or code
NameOr(name, code) == IF name = None \/ name = "" THEN code ELSE name

\* A slip: the status of the codec service's answer is not looked at, and the
\* fields missing from an error answer default to "".
decode_disaster_id_unchecked(disaster_id, up) == Ok(NoDecoded)

\* codec_client.decode_disaster_id from the answer resp of the codec service on.
decode_disaster_id_of(disaster_id, up, resp) ==
    LET payload    == resp.body
        event_time == strptime(payload.event.time_code)
    IN  IF Len(disaster_id) # 36 \/ ~str_isdigit(disaster_id)
        THEN Raise("ID must have 36 characters, all digits", NoDecoded)
        ELSE IF ~up THEN Raise("call of the codec service failed", NoDecoded)
        ELSE IF resp.status # 200
        THEN Raise("codec service answered an error: " \o resp.detail, NoDecoded)
        ELSE IF ~event_time.ok
        THEN Raise("time code format error, expected YYYYMMDDhhmmss", NoDecoded)
        ELSE Ok([event    |-> [latCode |-> payload.event.lat_code,
                               lngCode |-> payload.event.lng_code,
                               time    |-> event_time.val],
                 source   |-> [code |-> payload.source.code,
                               name |-> NameOr(payload.names.source, payload.source.code)],
                 carrier  |-> [code |-> payload.carrier.code,
                               name |-> NameOr(payload.names.carrier, payload.carrier.code)],
                 disaster |-> [categoryCode    |-> payload.disaster.category,
                               categoryName    |-> NameOr(payload.names.disaster_category,
                                                          payload.disaster.category),
                               subCategoryCode |-> payload.disaster.sub_category,
                               subCategoryName |-> NameOr(payload.names.disaster_sub_category,
                                                          payload.disaster.sub_category),
                               indicatorCode   |-> payload.disaster.indicator,
                               indicatorName   |-> NameOr(payload.names.indicator,
                                                          payload.disaster.indicator)]])

\* codec_client.decode_disaster_id; up: the codec service can be reached.
decode_disaster_id(disaster_id, up) ==
    decode_disaster_id_of(disaster_id, up, codec_service_decode(disaster_id))

\* codec_client.encode_disaster_id from the answer resp of the codec service on.
encode_disaster_id_of(up, resp) ==
    IF ~up THEN Raise("call of the codec service failed", << >>)
    ELSE IF resp.status # 200
    THEN Raise("codec service answered an error: " \o resp.detail, << >>)
    ELSE IF resp.body.id = << >> THEN Raise("codec service returned no ID", << >>)
    ELSE Ok(resp.body.id)

\* codec_client.encode_disaster_id; up: the codec service can be reached.
encode_disaster_id(info, pad_year, up) ==
    encode_disaster_id_of(up, codec_service_encode(
        [event    |-> [latCode |-> info.lat_code, lngCode |-> info.lng_code,
                       time    |-> strftime(info.event_time, pad_year)],
         source   |-> [code |-> info.source_code],
         carrier  |-> [code |-> info.carrier_code],
         disaster |-> [categoryCode    |-> info.disaster_category_code,
                       subCategoryCode |-> info.disaster_sub_category_code,
                       indicatorCode   |-> info.indicator_code]], pad_year))

\* A database session: the committed tables, and whether a failed flush has
\* left the session unusable until a rollback (nothing in the service rolls
\* back).
Session(tables_now) == [db |-> tables_now, broken |-> FALSE]

\* What a function of ingestion_service returns or raises: status "raised"
\* stands for an exception that leaves the function.
Ingested(status, msg, new_id, session) ==
    [status |-> status, msg |-> msg, id |-> new_id, session |-> session]

\* A slip: the event row is only ever updated, a missing one is not added.
_upsert_event_update_only(tables_now, event_id, event_time, lat_code, lng_code) ==
    [tables_now EXCEPT !.events =
        { IF e.id = event_id
          THEN [e EXCEPT !.event_time = event_time, !.lat_code = lat_code,
                         !.lng_code = lng_code]
          ELSE e : e \in @ }]

\* ingestion_service._upsert_event: the tables with the event row added or its
\* three fields overwritten.
_upsert_event(tables_now, event_id, event_time, lat_code, lng_code) ==
    IF \A e \in tables_now.events : e.id # event_id
    THEN [tables_now EXCEPT !.events =
            @ \cup { [id |-> event_id, lat_code |-> lat_code, lng_code |-> lng_code,
                      event_time |-> event_time] }]
    ELSE [tables_now EXCEPT !.events =
            { IF e.id = event_id
              THEN [e EXCEPT !.event_time = event_time, !.lat_code = lat_code,
                             !.lng_code = lng_code]
              ELSE e : e \in @ }]

\* models.DisasterRecord(id=..., event_id=event.id, ...) as both ingest
\* functions build it; is_archived takes the column's default.
DisasterRecord(new_id, event_id, d, media_path, now) ==
    [id |-> new_id, event_id |-> event_id, event_time |-> d.event.time,
     lat_code |-> d.event.latCode, lng_code |-> d.event.lngCode,
     source_code |-> d.source.code, source_name |-> d.source.name,
     carrier_code |-> d.carrier.code, carrier_name |-> d.carrier.name,
     disaster_category_code |-> d.disaster.categoryCode,
     disaster_category_name |-> d.disaster.categoryName,
     disaster_sub_category_code |-> d.disaster.subCategoryCode,
     disaster_sub_category_name |-> d.disaster.subCategoryName,
     indicator_code |-> d.disaster.indicatorCode,
     indicator_name |-> d.disaster.indicatorName,
     media_path |-> media_path, created_at |-> now, last_accessed_at |-> now,
     is_archived |-> FALSE]

\* models.MediaIndex(disaster_id=record.id, media_type="auto", file_path=...)
MediaIndex(disaster_id, file_path) ==
    [disaster_id |-> disaster_id, media_type |-> "auto", file_path |-> file_path]

\* The part the two ingest functions share, from the outcome decoded_id of the
\* decode on: a failed decode ends the call (returned as an error by
\* ingest_encoded, raised by ingest_raw); else event_id = id[:26], the event
\* upserted, the record added, db.commit(), and the media row when there is a
\* media_path.  A second record with a stored id fails the flush: nothing of
\* the transaction is kept and the session is left broken.
store_decoded(session, new_id, decoded_id, media_path, now, ok_msg, failed) ==
    LET d   == decoded_id.val
        event_id == Slice(new_id, 0, 26)
        db1 == _upsert_event(session.db, event_id, d.event.time, d.event.latCode,
                             d.event.lngCode)
        db2 == [db1 EXCEPT !.records =
                   @ \cup { DisasterRecord(new_id, event_id, d, media_path, now) }]
        db3 == IF media_path # None /\ media_path # ""
               THEN [db2 EXCEPT !.media = Append(@, MediaIndex(new_id, media_path))]
               ELSE db2
    IN  IF ~decoded_id.ok THEN Ingested(failed, decoded_id.err, << >>, session)
        ELSE IF session.broken
        THEN Ingested("raised", "PendingRollbackError", << >>, session)
        ELSE IF \E r \in session.db.records : r.id = new_id
        THEN Ingested("raised", "IntegrityError", << >>,
                      [db |-> session.db, broken |-> TRUE])
        ELSE Ingested("ok", ok_msg, new_id, [db |-> db3, broken |-> FALSE])

\* ingestion_service.ingest_encoded
ingest_encoded(session, payload, now, up) ==
    store_decoded(session, payload.id, decode_disaster_id(payload.id, up), payload.media_path,
                  now, "ingested (encoded mode)", "error")

\* ingestion_service.ingest_raw from the outcome new_id of the encode on; the
\* decode of the new ID is outside the try.
ingest_raw_of(session, request, now, up_decode, new_id) ==
    IF ~new_id.ok THEN Ingested("error", new_id.err, << >>, session)
    ELSE store_decoded(session, new_id.val, decode_disaster_id(new_id.val, up_decode),
                       request.event.media_path, now, "ingested (raw mode)", "raised")

\* ingestion_service.ingest_raw
ingest_raw(session, request, now, pad_year, up_encode, up_decode) ==
    ingest_raw_of(session, request, now, up_decode,
                  encode_disaster_id(request.event, pad_year, up_encode))

\* What a handler of main.py answers, and the tables it leaves committed.
Answer(status, detail, new_id, tables_after) ==
    [reply |-> [NoReply EXCEPT !.status = status, !.detail = detail, !.id = new_id],
     db |-> tables_after]

\* A slip: the password is not compared.
_ensure_admin_open(admin_password) == TRUE

\* main._ensure_admin: TRUE when it returns, FALSE when it raises
\* HTTPException(401).
_ensure_admin(admin_password) == admin_password = ADMIN_PASSWORD

\* What main.ingest_data makes of the result r of the ingest function.
ingest_data_answer(tables_now, r) ==
    IF r.status = "ok" THEN Answer(200, r.msg, r.id, r.session.db)
    ELSE IF r.status = "error" THEN Answer(400, r.msg, << >>, tables_now)
    ELSE Answer(500, "Internal Server Error", << >>, tables_now)

\* main.ingest_data
ingest_data(tables_now, mode, body, admin_password, now, pad_year, up_encode, up_decode) ==
    IF ~_ensure_admin(admin_password)
    THEN Answer(401, "wrong admin password", << >>, tables_now)
    ELSE IF mode = "encoded"
    THEN ingest_data_answer(tables_now,
                            ingest_encoded(Session(tables_now), body, now, up_decode))
    ELSE IF mode = "raw"
    THEN ingest_data_answer(tables_now,
                            ingest_raw(Session(tables_now), body, now, pad_year, up_encode,
                                       up_decode))
    ELSE Answer(400, "mode must be 'encoded' or 'raw'", << >>, tables_now)

\* One more row counted: r is what the ingest function returned or raised.
row_counted(counted, r) ==
    [session   |-> r.session,
     count_ok  |-> counted.count_ok + (IF r.status = "ok" THEN 1 ELSE 0),
     count_err |-> counted.count_err + (IF r.status = "ok" THEN 0 ELSE 1)]

\* The loop of main.ingest_batch over the rows of the file, on one session:
\* the session after the last row and the two counters.  Whatever a row
\* raises, the HTTPException for an unknown mode included, is counted as a
\* failure.
RECURSIVE ingest_rows(_, _, _, _, _, _, _)
ingest_rows(counted, mode, rows, now, pad_year, up_encode, up_decode) ==
    IF rows = << >> THEN counted
    ELSE ingest_rows(
            row_counted(counted,
                IF mode = "encoded"
                THEN ingest_encoded(counted.session, Head(rows), now, up_decode)
                ELSE IF mode = "raw"
                THEN ingest_raw(counted.session, Head(rows), now, pad_year, up_encode,
                                up_decode)
                ELSE Ingested("raised", "mode must be 'encoded' or 'raw'", << >>,
                              counted.session)),
            mode, Tail(rows), now, pad_year, up_encode, up_decode)

\* The answer of main.ingest_batch once the loop is done.
batch_done(done) ==
    [reply |-> [NoReply EXCEPT !.status = 200, !.detail = "ok",
                               !.count_ok = done.count_ok, !.count_err = done.count_err],
     db |-> done.session.db]

\* main.ingest_batch
ingest_batch(tables_now, mode, file, admin_password, now, pad_year, up_encode, up_decode) ==
    IF file.content_type \notin {"text/csv", "application/vnd.ms-excel",
                                 "application/octet-stream"}
    THEN Answer(400, "only CSV files are supported", << >>, tables_now)
    ELSE IF ~_ensure_admin(admin_password)
    THEN Answer(401, "wrong admin password", << >>, tables_now)
    ELSE IF ~file.utf8
    THEN Answer(400, "the CSV file must be UTF-8", << >>, tables_now)
    ELSE batch_done(ingest_rows([session |-> Session(tables_now), count_ok |-> 0,
                                 count_err |-> 0],
                                mode, file.rows, now, pad_year, up_encode, up_decode))

\* A slip: the read does not touch last_accessed_at.
get_disaster_record_untouched(tables_now, record_id, now) ==
    IF \A r \in tables_now.records : r.id # record_id
    THEN Answer(404, "no such record", << >>, tables_now)
    ELSE Answer(200, "", record_id, tables_now)

\* main.get_disaster_record
get_disaster_record(tables_now, record_id, now) ==
    IF \A r \in tables_now.records : r.id # record_id
    THEN Answer(404, "no such record", << >>, tables_now)
    ELSE Answer(200, "", record_id,
                [tables_now EXCEPT !.records =
                    { IF r.id = record_id THEN [r EXCEPT !.last_accessed_at = now] ELSE r :
                      r \in @ }])

\* NULL in a column that holds an id.
NullId == << "NULL" >>

\* main.delete_disaster_record; the media rows of the deleted record stay,
\* their disaster_id set to NULL (the relationship has no delete cascade).
delete_disaster_record(tables_now, record_id, admin_password) ==
    IF ~_ensure_admin(admin_password)
    THEN Answer(401, "wrong admin password", << >>, tables_now)
    ELSE IF \A r \in tables_now.records : r.id # record_id
    THEN Answer(404, "no such record", << >>, tables_now)
    ELSE Answer(200, "ok", record_id,
                [tables_now EXCEPT
                    !.records = { r \in @ : r.id # record_id },
                    !.media = [i \in DOMAIN @ |->
                                 IF @[i].disaster_id = record_id
                                 THEN [@[i] EXCEPT !.disaster_id = NullId]
                                 ELSE @[i]]])

\* A slip: records last read exactly RETENTION_INACTIVE_DAYS ago are taken too.
RetentionDueInclusive(r, now) ==
    r.last_accessed_at <= now - RETENTION_INACTIVE_DAYS /\ ~r.is_archived

\* The filter of run_retention: last_accessed_at < threshold, is_archived == False.
RetentionDue(r, now) ==
    r.last_accessed_at < now - RETENTION_INACTIVE_DAYS /\ ~r.is_archived

\* main.run_retention
run_retention(tables_now, now) ==
    LET due == { r \in tables_now.records : RetentionDue(r, now) }
    IN  [reply |-> [NoReply EXCEPT !.status = 200, !.detail = "ok",
                                   !.archived_count = Cardinality(due)],
         db |-> [tables_now EXCEPT !.records =
                    { IF r \in due THEN [r EXCEPT !.is_archived = TRUE] ELSE r : r \in @ }]]

(***************************************************************************)
(* The requests made to the backend.                                       *)
(***************************************************************************)
\* BASE_ID_A with another carrier: a second record of the same event.
BASE_ID_A_VIDEO == [BASE_ID_A EXCEPT ![30] = "3"]

\* BASE_ID_A with U+0663 for the last digit of its latitude.
BASE_ID_A_ARABIC == [BASE_ID_A EXCEPT ![6] = "u3"]

\* BASE_ID_A with a time part that is no date.
BASE_ID_A_NO_DATE == [i \in 1..ID_TOTAL_LENGTH |-> IF i \in 13..26 THEN "9" ELSE BASE_ID_A[i]]

\* The bodies of mode "encoded": IngestEncodedRequest(id, media_path).
EncodedBodies ==
    { [id |-> BASE_ID_A, media_path |-> None],
      [id |-> BASE_ID_A, media_path |-> "a.png"],
      [id |-> BASE_ID_A_VIDEO, media_path |-> None],
      [id |-> BASE_ID_B, media_path |-> None],
      [id |-> BASE_ID_A_NO_DATE, media_path |-> "a.png"],
      [id |-> Slice(BASE_ID_A, 0, 35), media_path |-> None],
      [id |-> [BASE_ID_A EXCEPT ![27] = "9"], media_path |-> "a.png"] }

\* IngestRawEventInfo
RawEvent(lat_code, lng_code, source_code, media_path) ==
    [lat_code |-> lat_code, lng_code |-> lng_code,
     event_time |-> [year |-> 2021, month |-> 5, day |-> 22, hour |-> 2, minute |-> 4,
                     second |-> 0],
     source_code |-> source_code, carrier_code |-> << "0" >>,
     disaster_category_code |-> << "3" >>, disaster_sub_category_code |-> << "0", "2" >>,
     indicator_code |-> << "0", "0", "1" >>, media_path |-> media_path]

\* The bodies of mode "raw": IngestRawRequest(event).  The first encodes to
\* BASE_ID_A, the second to an ID of latitude 5, the third has no known source.
RawBodies ==
    { [event |-> RawEvent(<< "1", "2" >>, << "1", "1", "6", "3", "9", "7" >>,
                          << "1", "0", "1" >>, None)],
      [event |-> RawEvent(<< "0", "5" >>, << "1", "1", "6", "3", "9", "7" >>,
                          << "1", "0", "1" >>, "a.png")],
      [event |-> RawEvent(<< "1", "2" >>, << "1", "1", "6", "3", "9", "7" >>,
                          << "9", "9", "9" >>, "a.png")] }

\* The X-Admin-Password header: right, wrong, missing.
Passwords == { ADMIN_PASSWORD, "guess", None }

\* Requests to /api/ingest: every body under its mode with the right password,
\* some with another mode or another password, some with the codec service
\* out of reach.
IngestRequest(mode, body, password) ==
    [mode |-> mode, body |-> body, password |-> password, up_encode |-> TRUE,
     up_decode |-> TRUE]

IngestRequests ==
    { IngestRequest("encoded", b, ADMIN_PASSWORD) : b \in EncodedBodies }
    \cup { IngestRequest("raw", b, ADMIN_PASSWORD) : b \in RawBodies }
    \cup { IngestRequest(m, [id |-> BASE_ID_A, media_path |-> None], p) :
             m \in {"encoded", "csv", ""}, p \in Passwords }
    \cup { [IngestRequest("encoded", [id |-> BASE_ID_A, media_path |-> None],
                          ADMIN_PASSWORD) EXCEPT !.up_decode = FALSE] }
    \cup { [IngestRequest("raw", b, ADMIN_PASSWORD) EXCEPT !.up_encode = u, !.up_decode = ~u] :
             b \in RawBodies, u \in BOOLEAN }

\* Uploaded files: content type, whether the bytes are UTF-8, the rows.
CsvFile(rows) == [content_type |-> "text/csv", utf8 |-> TRUE, rows |-> rows]

EncodedFiles ==
    { CsvFile(<< >>),
      CsvFile(<< [id |-> BASE_ID_A, media_path |-> None],
                 [id |-> BASE_ID_A_VIDEO, media_path |-> "a.png"] >>),
      CsvFile(<< [id |-> BASE_ID_B, media_path |-> None],
                 [id |-> BASE_ID_A_ARABIC, media_path |-> None] >>),
      CsvFile(<< [id |-> BASE_ID_A, media_path |-> None],
                 [id |-> BASE_ID_A, media_path |-> None],
                 [id |-> BASE_ID_A_VIDEO, media_path |-> None] >>),
      [CsvFile(<< [id |-> BASE_ID_A, media_path |-> None] >>) EXCEPT !.utf8 = FALSE] }

RawFiles == { CsvFile(<< b >>) : b \in RawBodies }

\* Requests to /api/ingest/batch.
BatchRequests ==
    { IngestRequest("encoded", f, ADMIN_PASSWORD) : f \in EncodedFiles }
    \cup { IngestRequest("raw", f, ADMIN_PASSWORD) : f \in RawFiles }
    \cup { IngestRequest("csv", CsvFile(rows), ADMIN_PASSWORD) :
             rows \in { << >>, << [id |-> BASE_ID_A, media_path |-> None] >> } }
    \cup { IngestRequest("encoded",
                         [CsvFile(<< [id |-> BASE_ID_A, media_path |-> None] >>)
                            EXCEPT !.content_type = t], p) :
             t \in {"text/csv", "image/png"}, p \in {ADMIN_PASSWORD, "guess"} }

\* The ids asked for by reads and deletes.
RecordIds == { BASE_ID_A, BASE_ID_A_VIDEO, BASE_ID_A_ARABIC, BASE_ID_B }

\* Requests to delete: every id with the right password, one with others.
DeleteRequests ==
    { [record_id |-> i, password |-> ADMIN_PASSWORD] : i \in RecordIds }
    \cup { [record_id |-> BASE_ID_A, password |-> p] : p \in Passwords }

\* Bounds of the exploration: the last day of the clock, and the media rows
\* after which no request with a media_path is made.
MaxClock == 1100

MaxMedia == 1

\* Days the clock can advance by between two requests.
TickDays == { RETENTION_INACTIVE_DAYS, RETENTION_INACTIVE_DAYS + 1 }

HasMediaPath(rows) == \E i \in 1..Len(rows) :
    (IF "event" \in DOMAIN rows[i] THEN rows[i].event.media_path ELSE rows[i].media_path) # None

InitBackend ==
    /\ NothingCalled
    /\ coord = CoordIdle
    /\ args = NoArgs
    /\ pc = "backend"

\* The call as made: what was asked, the tables and the clock before it.
Called(op, q) ==
    [op |-> op, mode |-> q.mode, body |-> q.body, password |-> q.password,
     up_encode |-> q.up_encode, up_decode |-> q.up_decode, before |-> db, at |-> clock]

\* The request is answered; the other variables belong to the codec's clients.
Answered ==
    /\ pc' = "answered"
    /\ clock' = clock
    /\ UNCHANGED << tables, args, event, source, carrier, disaster, encoded, decoded, coord,
                 evaluated, lookup, response, tried, reencoded, other >>

\* The handler's answer goes to the client and its tables are the stored ones.
Replied(a) ==
    /\ db' = a.db
    /\ reply' = a.reply

\* POST /api/ingest
IngestData ==
    /\ pc = "backend"
    /\ \E q \in IngestRequests, pad_year \in BOOLEAN :
         /\ HasMediaPath(<< q.body >>) => Len(db.media) < MaxMedia
         /\ Replied(ingest_data(db, q.mode, q.body, q.password, clock, pad_year,
                                q.up_encode, q.up_decode))
         /\ call' = Called("ingest", q)
    /\ Answered

\* POST /api/ingest/batch
IngestBatch ==
    /\ pc = "backend"
    /\ \E q \in BatchRequests, pad_year \in BOOLEAN :
         /\ HasMediaPath(q.body.rows) => Len(db.media) < MaxMedia
         /\ Replied(ingest_batch(db, q.mode, q.body, q.password, clock, pad_year,
                                 q.up_encode, q.up_decode))
         /\ call' = Called("ingest_batch", q)
    /\ Answered

\* GET /api/storage/disaster-records/{record_id}
GetDisasterRecord ==
    /\ pc = "backend"
    /\ \E record_id \in RecordIds :
         /\ Replied(get_disaster_record(db, record_id, clock))
         /\ call' = Called("get_disaster_record", IngestRequest("", record_id, None))
    /\ Answered

\* DELETE /api/storage/disaster-records/{record_id}
DeleteDisasterRecord ==
    /\ pc = "backend"
    /\ \E q \in DeleteRequests :
         /\ Replied(delete_disaster_record(db, q.record_id, q.password))
         /\ call' = Called("delete_disaster_record",
                           IngestRequest("", q.record_id, q.password))
    /\ Answered

\* POST /api/storage/run-retention
RunRetention ==
    /\ pc = "backend"
    /\ Replied(run_retention(db, clock))
    /\ call' = Called("run_retention", IngestRequest("", << >>, None))
    /\ Answered

\* Time passes between two requests.
Tick ==
    /\ pc = "backend"
    /\ \E days \in TickDays :
         /\ clock + days <= MaxClock
         /\ clock' = clock + days
    /\ UNCHANGED << tables, args, pc, event, source, carrier, disaster, encoded, decoded, coord,
                    evaluated, lookup, response, tried, reencoded, other, db, call, reply >>

\* The client has its answer; the backend waits for the next request.
NextRequest ==
    /\ pc = "answered"
    /\ pc' = "backend"
    /\ call' = NoCall
    /\ reply' = NoReply
    /\ UNCHANGED << tables, args, event, source, carrier, disaster, encoded, decoded, coord,
                    evaluated, lookup, response, tried, reencoded, other, db, clock >>

NextBackend ==
    \/ IngestData
    \/ IngestBatch
    \/ GetDisasterRecord
    \/ DeleteDisasterRecord
    \/ RunRetention
    \/ Tick
    \/ NextRequest

SpecBackend == InitBackend /\ [][NextBackend]_vars

\* A request of the named kind has been answered.
BackendAnswered(op) == pc = "answered" /\ call.op = op

\* C25: after any sequence of ingest_encoded and ingest_raw calls, every stored
\* DisasterRecord has event_id equal to the first 26 characters of its id, and
\* an Event row with that id exists whose lat_code, lng_code and event_time are
\* the values decoded from those 26 characters.
C25_EventRowOfEveryRecord ==
    \A r \in db.records :
      /\ r.event_id = Slice(r.id, 0, 26)
      /\ \E e \in db.events :
           /\ e.id = r.event_id
           /\ e.lat_code = PyStr(lat_int_of(Slice(r.id, 0, 6)))
           /\ e.lng_code = PyStr(lng_int_of(Slice(r.id, 6, 12)))
           /\ strptime(Slice(r.id, 12, 26)).ok
           /\ e.event_time = strptime(Slice(r.id, 12, 26)).val

\* ingest_raw has stored a second record of an event that ingest_encoded had
\* stored before: two records, one event row.
C25_Witness ==
    /\ BackendAnswered("ingest") /\ call.mode = "raw" /\ reply.status = 200
    /\ { r.id : r \in db.records } = { BASE_ID_A, BASE_ID_A_VIDEO }
    /\ { r.id : r \in call.before.records } = { BASE_ID_A_VIDEO }
    /\ Cardinality(db.events) = 1

\* decode_disaster_id(disaster_id) raises CodecError: the local check, the
\* request, the answer's status or the time code fails.
DecodeFails(disaster_id, up) ==
    \/ Len(disaster_id) # 36 \/ ~str_isdigit(disaster_id)
    \/ ~up
    \/ codec_service_decode(disaster_id).status # 200
    \/ ~strptime(Slice(disaster_id, 12, 26)).ok

\* encode_disaster_id(info) raises CodecError.
EncodeFails(info, up) == \A pad_year \in BOOLEAN : ~encode_disaster_id(info, pad_year, up).ok

\* C26: when decoding the submitted ID fails, ingest_encoded returns the status
\* "error" with the decoder's message and leaves the Event, DisasterRecord and
\* MediaIndex tables unchanged; when encoding fails, ingest_raw returns "error"
\* with an empty id and writes nothing.  Seen through /api/ingest, the error
\* is a 400 answer carrying the message.
C26_CodecFailureWritesNothing ==
    /\ (BackendAnswered("ingest") /\ _ensure_admin(call.password)
          /\ call.mode = "encoded" /\ DecodeFails(call.body.id, call.up_decode))
         => LET r == ingest_encoded(Session(call.before), call.body, call.at,
                                    call.up_decode)
                answer == codec_service_decode(call.body.id)
            IN  /\ r.status = "error" /\ r.msg # "" /\ r.session.db = call.before
                /\ (Len(call.body.id) = 36 /\ str_isdigit(call.body.id)
                      /\ call.up_decode /\ answer.status # 200)
                     => r.msg = "codec service answered an error: " \o answer.detail
                /\ reply.status = 400 /\ reply.detail = r.msg
                /\ db = call.before
    /\ (BackendAnswered("ingest") /\ _ensure_admin(call.password)
          /\ call.mode = "raw" /\ EncodeFails(call.body.event, call.up_encode))
         => /\ \A pad_year \in BOOLEAN :
                 LET r == ingest_raw(Session(call.before), call.body, call.at, pad_year,
                                     call.up_encode, call.up_decode)
                 IN  /\ r.status = "error" /\ r.id = << >> /\ r.msg # ""
                     /\ r.session.db = call.before
                     /\ reply.detail = r.msg
            /\ reply.status = 400 /\ reply.id = << >>
            /\ db = call.before

\* An ID whose time part is no date, submitted with a media path to a
\* backend that holds records: the codec service decodes it, the client
\* rejects the time code, and no row is written.
C26_Witness ==
    /\ BackendAnswered("ingest") /\ call.mode = "encoded"
    /\ call.body = [id |-> BASE_ID_A_NO_DATE, media_path |-> "a.png"]
    /\ codec_service_decode(call.body.id).status = 200
    /\ call.before.records # {}
    /\ reply.status = 400
    /\ db = call.before

\* The record with the given id, as a set of at most one row.
RecordOf(tables_now, record_id) == { r \in tables_now.records : r.id = record_id }

\* C27: run_retention marks as archived exactly the records that are not yet
\* archived and whose last_accessed_at is more than RETENTION_INACTIVE_DAYS
\* before now, returns the number of records it marked and leaves every other
\* record unchanged; and no operation clears is_archived: a record that was
\* archived before a request and is still stored after it is still archived.
C27_RetentionArchivesTheInactive ==
    /\ BackendAnswered("run_retention") =>
         LET inactive == { r \in call.before.records :
                             /\ ~r.is_archived
                             /\ call.at - r.last_accessed_at > RETENTION_INACTIVE_DAYS }
         IN  /\ db.records = (call.before.records \ inactive)
                               \cup { [r EXCEPT !.is_archived = TRUE] : r \in inactive }
             /\ reply.status = 200
             /\ reply.archived_count = Cardinality(inactive)
             /\ db.events = call.before.events
             /\ db.media = call.before.media
    /\ pc = "answered" =>
         \A r \in call.before.records : \A kept \in RecordOf(db, r.id) :
            r.is_archived => kept.is_archived

\* A retention run that archived one record and left another, read since,
\* as it was.
C27_Witness ==
    /\ BackendAnswered("run_retention")
    /\ reply.archived_count = 1
    /\ \E r \in db.records : r.is_archived /\ r \notin call.before.records
    /\ \E r \in db.records : ~r.is_archived /\ r.created_at < r.last_accessed_at

\* C28: every successful get_disaster_record sets the record's
\* last_accessed_at to the current time and no request moves it back, so
\* run_retention never archives a non-archived record whose last_accessed_at
\* is less than RETENTION_INACTIVE_DAYS before now; a read of a missing id
\* answers 404 and changes nothing.
C28_ReadKeepsRecordActive ==
    /\ BackendAnswered("get_disaster_record") =>
         IF RecordOf(call.before, call.body) = {}
         THEN reply.status = 404 /\ db = call.before
         ELSE /\ reply.status = 200
              /\ db.records = { IF r.id = call.body
                                THEN [r EXCEPT !.last_accessed_at = call.at] ELSE r :
                                r \in call.before.records }
              /\ db.events = call.before.events
              /\ db.media = call.before.media
    /\ pc = "answered" =>
         \A r \in call.before.records : \A kept \in RecordOf(db, r.id) :
            kept.last_accessed_at >= r.last_accessed_at
    /\ BackendAnswered("run_retention") =>
         \A r \in call.before.records :
            (~r.is_archived /\ call.at - r.last_accessed_at < RETENTION_INACTIVE_DAYS)
              => r \in db.records

\* A record stored more than RETENTION_INACTIVE_DAYS ago and read today is
\* not archived by today's retention run.
C28_Witness ==
    /\ BackendAnswered("run_retention")
    /\ \E r \in db.records :
         /\ call.at - r.created_at > RETENTION_INACTIVE_DAYS
         /\ r.last_accessed_at = call.at
         /\ ~r.is_archived

\* C29: both ingest and ingest_batch answer with an HTTP 400 error whenever
\* mode is neither "encoded" nor "raw" (the request being one that passes the
\* admin check), and store nothing.
C29_UnknownModeAnswers400 ==
    (/\ pc = "answered" /\ call.op \in {"ingest", "ingest_batch"}
     /\ _ensure_admin(call.password)
     /\ call.mode \notin {"encoded", "raw"})
      => reply.status = 400 /\ db = call.before

\* The same for /api/ingest alone.
C29_IngestUnknownModeAnswers400 ==
    (BackendAnswered("ingest") /\ _ensure_admin(call.password)
       /\ call.mode \notin {"encoded", "raw"})
      => reply.status = 400 /\ db = call.before

\* An unknown mode stores nothing, whatever is answered.
C29_UnknownModeStoresNothing ==
    (pc = "answered" /\ call.op \in {"ingest", "ingest_batch"}
       /\ call.mode \notin {"encoded", "raw"})
      => db = call.before

\* C30: ingest, ingest_batch and delete_disaster_record called with a missing
\* or wrong X-Admin-Password are rejected with 401 and leave all tables
\* unchanged; delete with the right password removes exactly the named record,
\* or answers 404 and changes nothing when the record does not exist.
C30_AdminGate ==
    /\ (/\ pc = "answered"
        /\ call.op \in {"ingest", "ingest_batch", "delete_disaster_record"}
        /\ call.password # ADMIN_PASSWORD)
         => reply.status = 401 /\ db = call.before
    /\ (BackendAnswered("delete_disaster_record") /\ call.password = ADMIN_PASSWORD)
         => IF RecordOf(call.before, call.body) = {}
            THEN reply.status = 404 /\ db = call.before
            ELSE /\ reply.status = 200
                 /\ db.records = call.before.records \ RecordOf(call.before, call.body)
                 /\ db.events = call.before.events
                 /\ Len(db.media) = Len(call.before.media)

\* The same but for the status that ingest_batch answers: whatever the
\* status, a request without the right password changes no table.
C30_WrongPasswordChangesNothing ==
    (/\ pc = "answered"
     /\ call.op \in {"ingest", "ingest_batch", "delete_disaster_record"}
     /\ call.password # ADMIN_PASSWORD)
      => reply.status \in {400, 401} /\ db = call.before

====
